---- MODULE Spec2Model ----
(***************************************************************************)
(* Model of the gesture pipeline of camera-recog:                          *)
(*   - GestureProcessor._smooth_gesture, the sliding-window stabilizer     *)
(*     (src/gesture_processor.py);                                         *)
(*   - the cooldown dispatch of GestureAIAgent in src/main.py              *)
(*     (process_gesture_and_respond, _mood_cb, _gesture_cb) and in         *)
(*     src/main_enhanced.py (_register_callbacks), the latter driven by    *)
(*     the sensing loop of src/app.py (run_agent).                         *)
(*                                                                         *)
(* Confidences are kept exact.  A candidate carries its confidence in      *)
(* hundredths (90 is 0.9); a returned confidence is the rational n/d, the  *)
(* record [n |-> n, d |-> d], so that a mean and a product by 0.8 lose     *)
(* nothing.  Times are whole seconds.                                      *)
(***************************************************************************)
EXTENDS Integers, Sequences, FiniteSets, TLC

(***************************************************************************)
(* Program constants of GestureProcessor.__init__.                         *)
(***************************************************************************)
buffer_size == 5

min_hold_frames == 2

\* None, as the value of last_confirmed_gesture and of blink_type.
None == "None"

\* None, where a dictionary or a result object is expected.
Absent == [none |-> TRUE]

(***************************************************************************)
(* Exact confidences.                                                      *)
(***************************************************************************)
Q(n, d) == [n |-> n, d |-> d]

QGt(a, b) == a.n * b.d > b.n * a.d

QEq(a, b) == a.n * b.d = b.n * a.d

\* 0.8 * a
QTimes08(a) == Q(8 * a.n, 10 * a.d)

(***************************************************************************)
(* Candidates: the per-frame gesture_info dictionaries handed to           *)
(* _smooth_gesture.  The default candidate of analyze_gesture is neutral   *)
(* at 0.0 with empty details; every other candidate carries details.       *)
(***************************************************************************)
Candidate(g, c, dt) == [gesture_type |-> g, confidence |-> c, details |-> dt]

EmptyDetails == "{}"

DetailsOf(g) == "details:" \o g

DefaultCandidate == Candidate("neutral", 0, EmptyDetails)

(***************************************************************************)
(* GestureProcessor._smooth_gesture, as a function of the stabilizer state *)
(* (window, last confirmed label, hold counter) and the candidate.         *)
(***************************************************************************)
\* A variant of lines 267-269 that pops the newest entry, pop() for pop(0).
PushBuffer_EvictsNewest(buf, g) ==
    LET b == Append(buf, g)
    IN  IF Len(b) > buffer_size THEN SubSeq(b, 1, buffer_size) ELSE b

\* lines 262-269: append, then evict the oldest entry beyond buffer_size.
PushBuffer(buf, g) ==
    LET b == Append(buf, g)
    IN  IF Len(b) > buffer_size THEN Tail(b) ELSE b

\* A variant of line 272 that is off by one: the window counts as full with
\* buffer_size - 1 entries.
BufferNotFull_OffByOne(buf) == Len(buf) < buffer_size - 1

\* line 272: the window is not full yet, the raw candidate is returned.
BufferNotFull(buf) == Len(buf) < buffer_size

\* lines 276-279: gesture_counts[g_type].
GestureCount(buf, t) == Cardinality({i \in DOMAIN buf : buf[i].gesture_type = t})

BufferTypes(buf) == {buf[i].gesture_type : i \in DOMAIN buf}

FirstIndex(buf, t) ==
    CHOOSE i \in DOMAIN buf :
        /\ buf[i].gesture_type = t
        /\ \A j \in DOMAIN buf : buf[j].gesture_type = t => i <= j

\* lines 282-283: max() over the dict items keeps the first maximum in
\* insertion order, the label that occurs first in the window.
MostCommonGesture(buf) ==
    CHOOSE t \in BufferTypes(buf) :
        \A u \in BufferTypes(buf) :
            \/ GestureCount(buf, t) > GestureCount(buf, u)
            \/ /\ GestureCount(buf, t) = GestureCount(buf, u)
               /\ FirstIndex(buf, t) <= FirstIndex(buf, u)

RECURSIVE SumConfidence(_, _)
SumConfidence(buf, t) ==
    IF buf = <<>> THEN 0
    ELSE (IF Head(buf).gesture_type = t THEN Head(buf).confidence ELSE 0)
         + SumConfidence(Tail(buf), t)

\* lines 287-290: mean confidence of the entries of the most common label.
AvgConfidence(buf) ==
    LET t == MostCommonGesture(buf)
    IN  Q(SumConfidence(buf, t), 100 * GestureCount(buf, t))

\* line 284 and line 293, first conjunct: occurrence_ratio >= 0.6.
OccurrenceRatioOK(buf) ==
    10 * GestureCount(buf, MostCommonGesture(buf)) >= 6 * Len(buf)

\* line 293: occurrence_ratio >= 0.6 and avg_confidence > 0.5.
PromotionCriteria(buf) ==
    /\ OccurrenceRatioOK(buf)
    /\ QGt(AvgConfidence(buf), Q(5, 10))

\* A variant of lines 295-299 that counts every promotion, whatever the last
\* confirmed label.
HoldOnPromotion_CountsAll(last, hold, t) == hold + 1

\* lines 295-299: the hold counter on promotion.
HoldOnPromotion(last, hold, t) == IF last = t THEN hold + 1 ELSE 1

\* A variant of line 302 that confirms on the first promotion.
HoldReached_AtOne(hold) == hold >= 1

\* line 302: the hold counter has reached min_hold_frames.
HoldReached(hold) == hold >= min_hold_frames

\* lines 304-309.
StableResult(buf, g) ==
    [gesture_type |-> MostCommonGesture(buf),
     confidence   |-> AvgConfidence(buf),
     details      |-> g.details,
     stable       |-> "true"]

\* lines 326-331.
DecayResult(buf, last, g) ==
    [gesture_type |-> last,
     confidence   |-> QTimes08(AvgConfidence(buf)),
     details      |-> g.details,
     stable       |-> "false"]

\* A variant of lines 333-338 that reports the 'face_detected' threshold as
\* the confidence.
NeutralResult_FaceDetected ==
    [gesture_type |-> "neutral",
     confidence   |-> Q(40, 100),
     details      |-> EmptyDetails,
     stable       |-> "false"]

\* lines 333-338.
NeutralResult ==
    [gesture_type |-> "neutral",
     confidence   |-> Q(0, 100),
     details      |-> EmptyDetails,
     stable       |-> "false"]

\* line 273: the candidate itself, which has no 'stable' key.
RawResult(g) ==
    [gesture_type |-> g.gesture_type,
     confidence   |-> Q(g.confidence, 100),
     details      |-> g.details,
     stable       |-> "absent"]

\* A variant of lines 321-338 that falls back to the candidate of the call
\* where the code falls back to neutral.
DecayPath_ReturnsCandidate(buf, last, hold, g) ==
    IF last # None /\ hold > 0
    THEN LET h == IF hold - 1 > 0 THEN hold - 1 ELSE 0
         IN  [buffer |-> buf, last |-> last, hold |-> h,
              result |-> IF h > 0 THEN DecayResult(buf, last, g) ELSE RawResult(g),
              notify |-> FALSE]
    ELSE [buffer |-> buf, last |-> last, hold |-> hold,
          result |-> RawResult(g), notify |-> FALSE]

\* lines 321-338: the path taken when no stable result was returned.
DecayPath(buf, last, hold, g) ==
    IF last # None /\ hold > 0
    THEN LET h == IF hold - 1 > 0 THEN hold - 1 ELSE 0
         IN  [buffer |-> buf, last |-> last, hold |-> h,
              result |-> IF h > 0 THEN DecayResult(buf, last, g) ELSE NeutralResult,
              notify |-> FALSE]
    ELSE [buffer |-> buf, last |-> last, hold |-> hold,
          result |-> NeutralResult, notify |-> FALSE]

\* lines 260-338.  notify: the gesture callbacks were called (lines 311-318).
SmoothGesture(buffer, last, hold, g) ==
    LET buf == PushBuffer(buffer, g)
    IN  IF BufferNotFull(buf)
        THEN [buffer |-> buf, last |-> last, hold |-> hold,
              result |-> RawResult(g), notify |-> FALSE]
        ELSE IF PromotionCriteria(buf)
             THEN LET h == HoldOnPromotion(last, hold, MostCommonGesture(buf))
                  IN  IF HoldReached(h)
                      THEN [buffer |-> buf, last |-> MostCommonGesture(buf),
                            hold |-> h, result |-> StableResult(buf, g),
                            notify |-> TRUE]
                      ELSE DecayPath(buf, last, h, g)
             ELSE DecayPath(buf, last, hold, g)

\* A variant in which the window is a list shared by all instances.
InstanceWindow_Shared(own, other) == other

\* lines 19-23: the window, the last confirmed label and the hold counter
\* are attributes set in __init__, one of each per instance: the window an
\* instance reads is its own, whatever another instance holds.
InstanceWindow(own, other) == own

(***************************************************************************)
(* GestureProcessor.analyze_gesture, lines 33-83: the candidate of a frame *)
(* from the hand result, the body result and the facial data.  A result    *)
(* that was not computed (no hands, no pose, no facial data) is Absent.    *)
(***************************************************************************)
\* A variant of lines 62-78 that lets the expression replace a candidate of
\* any confidence.
AnalyzeCandidate_FacialFirst(hand, body, facial) ==
    LET g0 == DefaultCandidate
        g1 == IF hand # Absent /\ hand.confidence > 50 THEN hand ELSE g0
        g2 == IF body # Absent /\ body.confidence > g1.confidence THEN body ELSE g1
    IN  IF /\ facial # Absent
           /\ facial.expression # Absent
           /\ facial.expression.confidence > 40
        THEN Candidate(facial.expression.expression,
                       facial.expression.confidence,
                       DetailsOf(facial.expression.expression))
        ELSE g2

AnalyzeCandidate(hand, body, facial) ==
    LET g0 == DefaultCandidate
        g1 == IF hand # Absent /\ hand.confidence > 50 THEN hand ELSE g0
        g2 == IF body # Absent /\ body.confidence > g1.confidence THEN body ELSE g1
    IN  IF /\ facial # Absent
           /\ g2.confidence < 50
           /\ facial.expression # Absent
           /\ facial.expression.confidence > 40
        THEN Candidate(facial.expression.expression,
                       facial.expression.confidence,
                       DetailsOf(facial.expression.expression))
        ELSE g2

(***************************************************************************)
(* The cooldown intervals, in seconds: main.py lines 92, 98 and 100, and   *)
(* the same defaults in config.py (GestureConfig, FacialConfig).           *)
(***************************************************************************)
gesture_cooldown == 2

blink_cooldown == 3

mood_cooldown == 5

\* main.py line 98, blink_cooldown = 3.0 seconds, in ticks of half a second.
blink_cooldown_ticks == 6

\* mood_music_player.py line 252, wait(timeout=2): the seconds stop() may
\* wait for the player process, in ticks of half a second.
stop_wait_timeout == 4

\* config.py FacialConfig.mood_confidence_threshold (0.6), in hundredths.
mood_confidence_threshold == 60

Categories == {"gesture", "blink", "mood"}

Interval(c) ==
    CASE c = "gesture" -> gesture_cooldown
      [] c = "blink"   -> blink_cooldown
      [] c = "mood"    -> mood_cooldown

\* The three last-trigger timestamps of an agent, as one record.
Times(lg, lb, lm) == [gesture |-> lg, blink |-> lb, mood |-> lm]

\* ActionExecutor.execute_mood_action, lines 70-90, without a music manager
\* (mood_music_manager is not part of the repository): TRUE when an action
\* ran and a result dictionary was returned, FALSE when None was returned.
ExecuteMoodAction(mood, confidence) ==
    /\ ~(confidence < 60)
    /\ mood \in {"happy", "sad", "surprised", "angry"}

\* FacialDetector.detect_expression, lines 333-339: the mood callbacks are
\* called with the returned label and confidence.
MoodCallbacksFire(expr) == expr # Absent /\ expr.confidence >= 40

(***************************************************************************)
(* src/main.py, GestureAIAgent.process_gesture_and_respond.  Each block    *)
(* maps the last-trigger record to the new one; the *Due operators are the *)
(* conditions under which the block calls its actuator.                    *)
(***************************************************************************)
\* lines 264-268.
MainBlinkDue(blink, t, times) ==
    /\ blink # Absent
    /\ blink.blink_detected
    /\ blink.blink_type # None
    /\ t - times.blink >= blink_cooldown

\* lines 270-271.
MainBlinkBlock(blink, t, times) ==
    IF MainBlinkDue(blink, t, times) THEN [times EXCEPT !.blink = t] ELSE times

\* lines 276-279.
MainMoodDue(expr, t, times) ==
    /\ expr # Absent
    /\ expr.mood # "neutral"
    /\ t - times.mood >= mood_cooldown

\* A variant of lines 281-286 that stamps the blink timer together with the
\* mood timer.
MainMoodBlock_TouchesBlink(expr, t, times) ==
    IF MainMoodDue(expr, t, times) /\ ExecuteMoodAction(expr.mood, expr.confidence)
    THEN [times EXCEPT !.mood = t, !.blink = t]
    ELSE times

\* lines 281-286: the timestamp moves only when the action returned a result.
MainMoodBlock(expr, t, times) ==
    IF MainMoodDue(expr, t, times) /\ ExecuteMoodAction(expr.mood, expr.confidence)
    THEN [times EXCEPT !.mood = t]
    ELSE times

\* lines 290-296.
MainGestureDue(res, t, times) ==
    /\ QGt(res.confidence, Q(65, 100))
    /\ res.stable = "true"
    /\ res.gesture_type # "neutral"
    /\ t - times.gesture >= gesture_cooldown

\* lines 297-310.
MainGestureBlock(res, t, times) ==
    IF MainGestureDue(res, t, times) THEN [times EXCEPT !.gesture = t] ELSE times

(***************************************************************************)
(* src/main_enhanced.py, GestureAIAgent._register_callbacks.               *)
(***************************************************************************)
\* lines 135-136.
EnhGestureDue(t, times) == t - times.gesture > gesture_cooldown

\* lines 141-142.
EnhGestureCallback(t, times) ==
    IF EnhGestureDue(t, times) THEN [times EXCEPT !.gesture = t] ELSE times

\* lines 149-150.
EnhMoodDue(confidence, t, times) ==
    /\ t - times.mood > mood_cooldown
    /\ confidence > mood_confidence_threshold

\* lines 152-157.
EnhMoodCallback(confidence, t, times) ==
    IF EnhMoodDue(confidence, t, times) THEN [times EXCEPT !.mood = t] ELSE times

(***************************************************************************)
(* src/facial_detector.py, FacialDetector: the glasses hysteresis of       *)
(* detect_face_and_features and the blink detector detect_blink.  The      *)
(* clock is counted in ticks of half a second; several frames may carry    *)
(* the same clock value.  Frame counters are kept up to one more than the  *)
(* threshold they are compared with, which stands for every larger value.  *)
(***************************************************************************)
\* line 18.
blink_frames_threshold == 2

\* line 26: deque(maxlen=10).
blink_buffer_maxlen == 10

\* lines 93 and 98: the number the glasses frame counters are compared with.
glasses_confirm_frames == 5

\* line 209: 1.5 seconds, in ticks.
blink_window == 3

\* line 156: the brightness below which the eyes count as closed.
closed_brightness == 80

UpTo(n, cap) == IF n > cap THEN cap ELSE n

\* What the cascades and the region statistics give for a frame with a face:
\* the numbers of eye boxes of the two eye cascades and the mean brightness
\* of the top 40% of the face.
FaceFeatures(e, g, b) == [face |-> TRUE, eyes |-> e, eyes_with_glasses |-> g,
                          eye_brightness |-> b, defect |-> "none"]

\* No face in the frame: detect_face_and_features returns None (lines 55-57).
NoFaceFeatures == [face |-> FALSE, eyes |-> 0, eyes_with_glasses |-> 0,
                   eye_brightness |-> 0, defect |-> "no_features"]

\* Features of a face with open eyes that lack what detect_blink asks for
\* first: face_detected is False, or the bundle has no 'eyes' or no 'face'
\* entry, or the face box is empty, or roi_color is missing.
DefectiveFeatures(defect) == [FaceFeatures(2, 0, 120) EXCEPT !.defect = defect]

\* lines 123-138: the four early returns of detect_blink.
BlinkReturnsNone(f) ==
    \/ ~f.face
    \/ f.defect \in {"face_not_detected", "no_eyes_entry", "no_face_entry",
                     "empty_face", "no_roi_color"}

\* A variant of lines 123-138 in which a rejected frame ends the closure
\* that was being counted.
RejectBlink_EndsClosure(closed, count, buf) ==
    [both_eyes_closed_frames |-> 0, blink_count |-> count, blink_buffer |-> buf]

\* lines 123-138: detect_blink returns None before it touches the closed
\* frame counter, the blink count or the burst buffer.
RejectBlink(closed, count, buf) ==
    [both_eyes_closed_frames |-> closed, blink_count |-> count,
     blink_buffer |-> buf]

\* lines 89-99: wearing_glasses and the two frame counters after a frame.
GlassesStatus(wearing, gf, nf, f) ==
    IF f.eyes_with_glasses > 0 /\ f.eyes = 0
    THEN [wearing_glasses   |-> IF gf + 1 > glasses_confirm_frames THEN TRUE
                                ELSE wearing,
          glasses_frames    |-> UpTo(gf + 1, glasses_confirm_frames + 1),
          no_glasses_frames |-> 0]
    ELSE IF f.eyes > 0
    THEN [wearing_glasses   |-> IF nf + 1 > glasses_confirm_frames THEN FALSE
                                ELSE wearing,
          glasses_frames    |-> 0,
          no_glasses_frames |-> UpTo(nf + 1, glasses_confirm_frames + 1)]
    ELSE [wearing_glasses   |-> wearing,
          glasses_frames    |-> gf,
          no_glasses_frames |-> nf]

\* lines 101-103: the eye boxes handed on in features['eyes'].
EyesUsed(f) ==
    IF f.eyes = 0 /\ f.eyes_with_glasses > 0 THEN f.eyes_with_glasses ELSE f.eyes

\* A variant of the deque that, when full, drops the timestamp appended.
AppendBlink_EvictsNewest(buf, t) ==
    LET b == Append(buf, t)
    IN  IF Len(b) > blink_buffer_maxlen THEN SubSeq(b, 1, blink_buffer_maxlen) ELSE b

\* A variant of the deque with room for two timestamps.
AppendBlink_KeepsTwo(buf, t) ==
    LET b == Append(buf, t)
    IN  IF Len(b) > 2 THEN Tail(b) ELSE b

\* line 26 and lines 161, 182: append to a deque of maxlen 10.
AppendBlink(buf, t) ==
    LET b == Append(buf, t)
    IN  IF Len(b) > blink_buffer_maxlen THEN Tail(b) ELSE b

\* A variant of line 209 that counts a blink exactly 1.5 seconds back.
AnalyzeBlinkPattern_Inclusive(buf, t) ==
    LET recent_blinks == Cardinality({i \in DOMAIN buf : t - buf[i] <= blink_window})
    IN  IF recent_blinks >= 3 THEN "triple_blink"
        ELSE IF recent_blinks >= 2 THEN "double_blink"
        ELSE "single_blink"

\* lines 207-216.
AnalyzeBlinkPattern(buf, t) ==
    LET recent_blinks == Cardinality({i \in DOMAIN buf : t - buf[i] < blink_window})
    IN  IF recent_blinks >= 3 THEN "triple_blink"
        ELSE IF recent_blinks >= 2 THEN "double_blink"
        ELSE "single_blink"

\* lines 166-172 and 190-196.
BlinkDetected(type, count, conf, method) ==
    [blink_detected |-> TRUE, blink_type |-> type, blink_count |-> count,
     confidence |-> conf, method |-> method]

\* lines 200-205.
NoBlinkDetected(count) ==
    [blink_detected |-> FALSE, blink_type |-> None, blink_count |-> count,
     confidence |-> 0, method |-> None]

\* lines 156 and 176: the eye signal of the frame reads closed.
EyesClosed(wearing, eyes, brightness) ==
    IF wearing THEN brightness < closed_brightness ELSE eyes = 0

\* A closure of a single frame taken for a blink.
BlinkComplete_AtOne(closed) == closed >= 1

\* lines 159 and 179.
BlinkComplete(closed) == closed >= blink_frames_threshold

\* lines 144-205: the closed-frame counter, the blink counter, the burst
\* buffer and the returned dictionary, from the mode, the eye boxes handed
\* on, the brightness and the clock.  MaxBlinkCount stands for more blinks.
DetectBlink(wearing, closed, count, buf, eyes, brightness, t, cap) ==
    IF EyesClosed(wearing, eyes, brightness)
    THEN [both_eyes_closed_frames |-> UpTo(closed + 1, blink_frames_threshold + 1),
          blink_count |-> count, blink_buffer |-> buf,
          blink_info |-> NoBlinkDetected(count)]
    ELSE IF BlinkComplete(closed)
    THEN LET b == AppendBlink(buf, t)
             c == UpTo(count + 1, cap)
         IN  [both_eyes_closed_frames |-> 0,
              blink_count |-> c, blink_buffer |-> b,
              blink_info |-> BlinkDetected(AnalyzeBlinkPattern(b, t), c,
                                           IF wearing THEN 60 ELSE 80,
                                           IF wearing THEN "brightness_based"
                                           ELSE "eye_detection")]
    ELSE [both_eyes_closed_frames |-> 0,
          blink_count |-> count, blink_buffer |-> buf,
          blink_info |-> NoBlinkDetected(count)]

(***************************************************************************)
(* src/facial_detector.py, FacialDetector.detect_expression (lines         *)
(* 218-348).  Scores and confidences of a frame are in hundredths; the     *)
(* averaged confidence is a rational.                                      *)
(***************************************************************************)
\* line 34: deque(maxlen=5).
expression_history_maxlen == 5

\* lines 240-246: the labels in the order of the dictionary.
LabelOrder == <<"happy", "sad", "surprised", "angry", "neutral">>

\* What the cascades and the region statistics give for a frame with a face:
\* the numbers of smile and eye boxes, mean and deviation of the eyebrow,
\* mouth and eye regions, and the mean area of the eye boxes.
ExprFeatures(s, e, bm, bs, mm, ms, area, es, em) ==
    [face |-> TRUE, smiles |-> s, eyes |-> e, eyebrow_mean |-> bm,
     eyebrow_std |-> bs, mouth_mean |-> mm, mouth_std |-> ms,
     avg_eye_area |-> area, eye_std |-> es, eye_mean |-> em,
     defect |-> "none"]

\* No features or no face: detect_expression returns None (lines 220-221).
NoExprFeatures ==
    [face |-> FALSE, smiles |-> 0, eyes |-> 0, eyebrow_mean |-> 0,
     eyebrow_std |-> 0, mouth_mean |-> 0, mouth_std |-> 0,
     avg_eye_area |-> 0, eye_std |-> 0, eye_mean |-> 0,
     defect |-> "no_features"]

\* Features of a smiling face that lack what detect_expression asks for
\* first: face_detected is False, or the bundle has no 'face' entry, or the
\* face box is empty, or roi_gray is missing.
DefectiveExprFeatures(defect) ==
    [ExprFeatures(1, 2, 120, 10, 120, 10, 400, 10, 130) EXCEPT !.defect = defect]

\* lines 220-237: the four early returns of detect_expression.
ExpressionReturnsNone(f) ==
    \/ ~f.face
    \/ f.defect \in {"face_not_detected", "no_face_entry", "empty_face",
                     "no_roi_gray"}

\* lines 240-246.
BaselineScores ==
    [happy |-> 10, sad |-> 10, surprised |-> 10, angry |-> 10, neutral |-> 60]

\* lines 249-251.
SmileScores(sc, f) ==
    IF f.smiles > 0
    THEN [sc EXCEPT !.happy = 75 + f.smiles * 15, !.neutral = 20]
    ELSE sc

\* max(0.0, x - 0.4), lines 293-294.
LessFortyFloored(x) == IF x - 40 > 0 THEN x - 40 ELSE 0

\* lines 273-294.
RegionScores(sc, f) ==
    IF f.smiles = 0
    THEN IF f.eyebrow_mean < 110 /\ f.eyebrow_std > 20 /\ f.mouth_std > 30
         THEN [sc EXCEPT !.angry = 65, !.happy = 10, !.neutral = 25]
         ELSE IF f.mouth_mean > 125 /\ f.eyebrow_mean > 95
         THEN [sc EXCEPT !.sad = 65, !.happy = 10, !.neutral = 25]
         ELSE [sc EXCEPT !.neutral = 65, !.happy = 15]
    ELSE [sc EXCEPT !.sad = LessFortyFloored(sc.sad),
                    !.angry = LessFortyFloored(sc.angry)]

\* lines 297-303.
SurpriseScores(sc, f) ==
    IF /\ f.eyes >= 2
       /\ f.smiles = 0
       /\ f.avg_eye_area > 500
       /\ f.eye_std > 25
       /\ f.eye_mean < 125
    THEN [sc EXCEPT !.surprised = 70, !.neutral = 20]
    ELSE sc

\* lines 240-303: expression_scores of a frame.
ExpressionScores(f) ==
    SurpriseScores(RegionScores(SmileScores(BaselineScores, f), f), f)

\* lines 306-307: max() keeps the first maximum in dictionary order.
DominantExpression(sc) ==
    LabelOrder[CHOOSE i \in DOMAIN LabelOrder :
                  \A j \in DOMAIN LabelOrder :
                      \/ sc[LabelOrder[i]] > sc[LabelOrder[j]]
                      \/ sc[LabelOrder[i]] = sc[LabelOrder[j]] /\ i <= j]

\* line 311: max(0.5, confidence).
FloorConfidence(c) == IF c < 50 THEN 50 ELSE c

\* A variant of the deque that, when full, drops the entry appended.
PushHistory_EvictsNewest(hist, e) ==
    LET h == Append(hist, e)
    IN  IF Len(h) > expression_history_maxlen
        THEN SubSeq(h, 1, expression_history_maxlen) ELSE h

\* line 34 and line 314: append to a deque of maxlen 5.
PushHistory(hist, e) ==
    LET h == Append(hist, e)
    IN  IF Len(h) > expression_history_maxlen THEN Tail(h) ELSE h

HistoryLabels(hist) == {hist[i].expression : i \in DOMAIN hist}

\* The place of a label in expr_counts: that of its first entry.
FirstEntry(hist, l) ==
    CHOOSE i \in DOMAIN hist :
        /\ hist[i].expression = l
        /\ \A j \in DOMAIN hist : hist[j].expression = l => i <= j

RECURSIVE SumHistory(_, _)
SumHistory(hist, l) ==
    IF hist = <<>> THEN 0
    ELSE (IF Head(hist).expression = l THEN Head(hist).confidence ELSE 0)
         + SumHistory(Tail(hist), l)

CountHistory(hist, l) == Cardinality({i \in DOMAIN hist : hist[i].expression = l})

\* A variant of line 325 that divides by the length of the whole history.
MeanConfidence_OverHistory(hist, l) == Q(SumHistory(hist, l), 100 * Len(hist))

\* line 325: np.mean of the confidences of a label's entries.
MeanConfidence(hist, l) == Q(SumHistory(hist, l), 100 * CountHistory(hist, l))

\* line 325: avg_confidences.
AvgConfidences(hist) ==
    [l \in HistoryLabels(hist) |-> MeanConfidence(hist, l)]

\* A variant of line 326 that takes the label of the lowest average.
FirstMaximum_Lowest(hist, avg) ==
    CHOOSE l \in DOMAIN avg :
        \A u \in DOMAIN avg :
            \/ QGt(avg[u], avg[l])
            \/ QEq(avg[l], avg[u]) /\ FirstEntry(hist, l) <= FirstEntry(hist, u)

\* line 326: max() keeps the first maximum in the order of expr_counts.
FirstMaximum(hist, avg) ==
    CHOOSE l \in DOMAIN avg :
        \A u \in DOMAIN avg :
            \/ QGt(avg[l], avg[u])
            \/ QEq(avg[l], avg[u]) /\ FirstEntry(hist, l) <= FirstEntry(hist, u)

\* lines 342-347.
ExpressionInfo(e, c, sc) ==
    [expression |-> e, confidence |-> c, all_scores |-> sc, mood |-> e]

\* lines 327-328 and 342-347.
SmoothedInfo(avg, l, sc) == ExpressionInfo(l, avg[l], sc)

\* lines 317-347: the history pass over the history h the frame's entry was
\* appended to, and the returned dictionary.
HistoryPass(h, avg, dom, conf, sc) ==
    [expression_history |-> h,
     info |-> IF Len(h) >= 2
              THEN SmoothedInfo(avg, FirstMaximum(h, avg), sc)
              ELSE ExpressionInfo(dom, Q(conf, 100), sc)]

\* lines 314-347.
AppendAndSmooth(h, dom, conf, sc) ==
    HistoryPass(h, AvgConfidences(h), dom, conf, sc)

\* lines 306-347, from the scores sc and their dominant label dom.
DetectDominant(hist, sc, dom, conf) ==
    AppendAndSmooth(PushHistory(hist, [expression |-> dom, confidence |-> conf]),
                    dom, conf, sc)

\* lines 306-347, from the scores sc of the frame.
DetectScores(hist, sc, dom) ==
    DetectDominant(hist, sc, dom, FloorConfidence(sc[dom]))

\* lines 240-347: the history and the returned dictionary.
DetectExpression(hist, f) ==
    DetectScores(hist, ExpressionScores(f),
                 DominantExpression(ExpressionScores(f)))

\* The mood observers registered with register_mood_callback (lines
\* 399-402), in registration order; the first one raises when called.
mood_callbacks == <<"raising_observer", "observer">>

\* line 334: confidence >= 0.4.
MoodThresholdMet(c) == 10 * c.n >= 4 * c.d

\* A variant of lines 335-339 without the inner try: the exception of an
\* observer ends the loop.
RECURSIVE NotifyMood_StopsAtRaise(_, _, _)
NotifyMood_StopsAtRaise(cbs, e, c) ==
    IF cbs = <<>> THEN <<>>
    ELSE <<[observer |-> Head(cbs), mood |-> e, confidence |-> c]>>
         \o (IF Head(cbs) = "raising_observer" THEN <<>>
             ELSE NotifyMood_StopsAtRaise(Tail(cbs), e, c))

\* lines 335-339: every observer is called in order with the label and the
\* confidence; an exception of one is caught and the loop goes on.  The
\* calls made.
RECURSIVE NotifyMood(_, _, _)
NotifyMood(cbs, e, c) ==
    IF cbs = <<>> THEN <<>>
    ELSE <<[observer |-> Head(cbs), mood |-> e, confidence |-> c]>>
         \o NotifyMood(Tail(cbs), e, c)

\* lines 332-341: the observer calls of a call that returns info.
MoodNotifications(info) ==
    IF MoodThresholdMet(info.confidence)
    THEN NotifyMood(mood_callbacks, info.expression, info.confidence)
    ELSE <<>>

(***************************************************************************)
(* src/gesture_processor.py, GestureProcessor._analyze_hand_gesture (lines *)
(* 86-139).  A hand is given by the confidences, in hundredths, that       *)
(* _is_thumbs_up, _is_peace_sign, _is_open_palm and _is_pointing compute   *)
(* from its 21 landmarks; a hand whose landmark list is too short to index *)
(* is malformed.                                                           *)
(***************************************************************************)
\* The gesture families in the order of the tests of lines 99-133.
HandFamilies == <<"thumbs_up", "peace_sign", "open_palm", "pointing">>

Hand(tu, ps, op, pt) ==
    [malformed |-> FALSE,
     confidence |-> [thumbs_up |-> tu, peace_sign |-> ps, open_palm |-> op,
                     pointing |-> pt]]

\* A hand with fewer than 21 landmarks: landmarks[4] of line 92 raises.
MalformedHand ==
    [malformed |-> TRUE,
     confidence |-> [thumbs_up |-> 0, peace_sign |-> 0, open_palm |-> 0,
                     pointing |-> 0]]

\* lines 8-16: self.gesture_thresholds, the entries of the four hand
\* families ('point' is the key of pointing), in hundredths.
gesture_thresholds ==
    [thumbs_up |-> 75, peace_sign |-> 80, open_palm |-> 70, pointing |-> 65]

\* lines 101, 110, 119 and 128: the numbers the confidences are compared
\* with.
AcceptanceThreshold(family) ==
    CASE family = "thumbs_up"  -> 70
      [] family = "peace_sign" -> 70
      [] family = "open_palm"  -> 75
      [] family = "pointing"   -> 70

\* lines 101, 110, 119 and 128.
FamilyAccepted(hand, family) == hand.confidence[family] > AcceptanceThreshold(family)

\* lines 99-133: the place in HandFamilies of the first family of the hand
\* that is accepted, 0 when none is.
FirstAccepted(hand) ==
    IF \E i \in DOMAIN HandFamilies : FamilyAccepted(hand, HandFamilies[i])
    THEN CHOOSE i \in DOMAIN HandFamilies :
            /\ FamilyAccepted(hand, HandFamilies[i])
            /\ \A j \in DOMAIN HandFamilies :
                   FamilyAccepted(hand, HandFamilies[j]) => i <= j
    ELSE 0

\* The exception that leaves a method, in place of its result.
Raised(e) == [raised |-> e]

\* lines 86-139: the candidate of the first hand with an accepted family,
\* the neutral candidate when no hand has one; an IndexError when a hand
\* reached by the loop is malformed.
RECURSIVE AnalyzeHandGesture(_)
AnalyzeHandGesture(hands) ==
    IF hands = <<>> THEN DefaultCandidate
    ELSE IF Head(hands).malformed THEN Raised("IndexError")
    ELSE IF FirstAccepted(Head(hands)) # 0
    THEN Candidate(HandFamilies[FirstAccepted(Head(hands))],
                   Head(hands).confidence[HandFamilies[FirstAccepted(Head(hands))]],
                   DetailsOf(HandFamilies[FirstAccepted(Head(hands))]))
    ELSE AnalyzeHandGesture(Tail(hands))

(***************************************************************************)
(* src/gesture_processor.py, GestureProcessor.analyze_gesture (lines       *)
(* 33-83) from the dictionary it is given, with the exceptions that leave  *)
(* it.                                                                     *)
(***************************************************************************)
\* A pose: its landmark list is too short to index up to 24, or a hand is
\* above its shoulder, or neither.
Pose(short, raised) == [short |-> short, raised |-> raised]

\* lines 141-169: IndexError for a short landmark list; raise_hand at 0.75
\* when a hand is above its shoulder; neutral otherwise.
AnalyzeBodyGesture(pose) ==
    IF pose.short THEN Raised("IndexError")
    ELSE IF pose.raised THEN Candidate("raise_hand", 75, DetailsOf("raise_hand"))
    ELSE DefaultCandidate

\* The dictionary given to analyze_gesture: whether it has the keys 'pose'
\* and 'hands', the list of hands (empty for None or no hand), the pose and
\* the facial data (Absent for None or a missing key).
GestureData(hp, hh, hs, pose, facial) ==
    [has_pose |-> hp, has_hands |-> hh, hands |-> hs, pose |-> pose,
     facial |-> facial]

\* {'hands': None, 'pose': None}
EmptyGestureData == GestureData(TRUE, TRUE, <<>>, Absent, Absent)

IsRaised(r) == DOMAIN r = {"raised"}

\* lines 35-80: the candidate handed to _smooth_gesture, or the exception
\* that leaves analyze_gesture before: KeyError of lines 35-36 for a
\* missing key, the exception of the hand or of the body analysis.
AnalyzeGesture(data) ==
    IF ~data.has_pose \/ ~data.has_hands THEN Raised("KeyError")
    ELSE IF data.hands # <<>> /\ IsRaised(AnalyzeHandGesture(data.hands))
    THEN AnalyzeHandGesture(data.hands)
    ELSE IF data.pose # Absent /\ IsRaised(AnalyzeBodyGesture(data.pose))
    THEN AnalyzeBodyGesture(data.pose)
    ELSE AnalyzeCandidate(IF data.hands # <<>> THEN AnalyzeHandGesture(data.hands)
                          ELSE Absent,
                          IF data.pose # Absent THEN AnalyzeBodyGesture(data.pose)
                          ELSE Absent,
                          data.facial)

(***************************************************************************)
(* Bounds and inputs.                                                      *)
(***************************************************************************)
\* The clock at construction: time.time() is far beyond every interval,
\* while the last-trigger timestamps start at 0.
StartTime == 7

\* The clock is not advanced beyond MaxTime.
MaxTime == 12

\* Actuator invocations are counted up to MaxCount; MaxCount + 1 stands for more.
MaxCount == 2

\* The largest time between two processed frames.
MaxStep == 6

\* The detector's clock, in ticks, is not advanced beyond MaxTick.
MaxTick == 4

\* The largest number of ticks between two frames of the detector.
MaxTickStep == 1

\* Blinks are counted up to MaxBlinkCount, which stands for more.
MaxBlinkCount == 11

\* The largest number of _listen_loop threads alive at the same time.
MaxListeners == 2

\* The largest number of run_agent threads alive at the same time.
MaxThreads == 2

\* The wall clock of the blink responder, in ticks of half a second, is not
\* advanced beyond MaxRespondTick.
MaxRespondTick == 14

\* The largest number of ticks from the response to a blink to the next blink.
MaxGap == 3

\* The clock that stamps the blinks of a burst log, in ticks of half a
\* second, is not advanced beyond MaxBurstTick.
MaxBurstTick == 4

\* The largest number of blinks logged between two resets.
MaxLogLen == 12

\* Frames handed to detect_face_and_features: no face; eye boxes of the
\* eye cascade only; no eye boxes at all; eye boxes of the glasses cascade
\* only; eye boxes of both cascades.
FaceFrames ==
    {NoFaceFeatures,
     FaceFeatures(2, 0, 120),
     FaceFeatures(0, 0, 120),
     FaceFeatures(0, 1, 120),
     FaceFeatures(2, 1, 120)}

\* Features handed to detect_blink: none; eye boxes in a bright and in a dark
\* eye region; no eye boxes in a dark eye region and in one whose brightness
\* is the threshold; features of a face without roi_color.
BlinkFrames ==
    {NoFaceFeatures,
     DefectiveFeatures("no_roi_color"),
     FaceFeatures(2, 0, 120),
     FaceFeatures(2, 0, 79),
     FaceFeatures(0, 0, 79),
     FaceFeatures(0, 0, 80)}

\* Frames handed to detect_expression: no face; one and two smile boxes;
\* the region statistics of the angry, the sad and the neutral branch; wide
\* eyes over the neutral and over the angry branch; features while
\* face_detected is False, without a 'face' entry, without roi_gray.
ExprFrames ==
    {NoExprFeatures,
     DefectiveExprFeatures("face_not_detected"),
     DefectiveExprFeatures("no_face_entry"),
     DefectiveExprFeatures("no_roi_gray"),
     ExprFeatures(1, 2, 120, 10, 120, 10, 400, 10, 130),
     ExprFeatures(2, 2, 120, 10, 120, 10, 400, 10, 130),
     ExprFeatures(0, 2, 100, 25, 120, 35, 400, 10, 130),
     ExprFeatures(0, 2, 120, 10, 130, 10, 400, 10, 130),
     ExprFeatures(0, 2, 120, 10, 120, 10, 400, 10, 130),
     ExprFeatures(0, 2, 120, 10, 120, 10, 600, 30, 100),
     ExprFeatures(0, 2, 100, 25, 120, 35, 600, 30, 100)}

\* Hands handed to the hand classifier: a fist; a flat open palm; an open
\* palm with spread fingertips, at 0.72; a pointing hand; a pointing hand
\* whose fingertips are close enough for an open palm at 0.78; a thumb and
\* a V below their thresholds; a hand with too few landmarks.
HandShapes ==
    {Hand(0, 0, 0, 0),
     Hand(0, 0, 98, 0),
     Hand(0, 0, 72, 0),
     Hand(0, 0, 0, 80),
     Hand(0, 0, 78, 80),
     Hand(45, 65, 0, 0),
     MalformedHand}

\* multi_hand_landmarks: up to two hands.
HandLists ==
    {<<>>} \cup {<<h>> : h \in HandShapes}
           \cup {<<h1, h2>> : h1 \in HandShapes, h2 \in HandShapes}

(***************************************************************************)
(* src/gesture_processor.py, the four geometric tests of a hand (lines     *)
(* 171-258), from the coordinates of the landmarks they read.  Coordinates *)
(* and confidences are in hundredths; the coordinates used are multiples   *)
(* of 50, for which every product and quotient below is exact.             *)
(***************************************************************************)
\* The landmarks a test reads: the y of the wrist (0), of the thumb joint
\* (2), of the thumb tip (4), of the index joint (6) and of the four other
\* fingertips (8, 12, 16, 20); the x of the index and middle fingertips.
HandLandmarks(palm_y, thumb_ip_y, thumb_tip_y, index_pip_y, index_tip_y, middle_tip_y, ring_tip_y, pinky_tip_y, index_tip_x, middle_tip_x) ==
    [palm_y |-> palm_y, thumb_ip_y |-> thumb_ip_y, thumb_tip_y |-> thumb_tip_y,
     index_pip_y |-> index_pip_y, index_tip_y |-> index_tip_y,
     middle_tip_y |-> middle_tip_y, ring_tip_y |-> ring_tip_y,
     pinky_tip_y |-> pinky_tip_y, index_tip_x |-> index_tip_x,
     middle_tip_x |-> middle_tip_x]

\* abs(a - b) of lines 179 and 201.
Distance(a, b) == IF a >= b THEN a - b ELSE b - a

\* min(max(c, 0.0), 1.0) of line 230; min(c, 1.0) of lines 188 and 210 for
\* a c that is not negative.
ClampConfidence(c) == IF c < 0 THEN 0 ELSE IF c > 100 THEN 100 ELSE c

\* lines 171-191: half the vertical distance between the thumb tip and its
\* joint, when the index and middle fingertips are below the thumb tip.
IsThumbsUp(lm) ==
    LET thumb_distance == Distance(lm.thumb_tip_y, lm.thumb_ip_y)
        fingers_curled == /\ lm.index_tip_y > lm.thumb_tip_y
                          /\ lm.middle_tip_y > lm.thumb_tip_y
    IN  ClampConfidence(IF fingers_curled THEN (thumb_distance * 5) \div 10 ELSE 0)

\* The V test without the factor of line 207.
IsPeaceSign_Unscaled(lm) ==
    LET index_middle_distance == Distance(lm.index_tip_x, lm.middle_tip_x)
        ring_curled  == lm.ring_tip_y > lm.middle_tip_y
        pinky_curled == lm.pinky_tip_y > lm.middle_tip_y
    IN  ClampConfidence(IF ring_curled /\ pinky_curled
                        THEN index_middle_distance ELSE 0)

\* lines 193-213: 0.7 times the horizontal distance between the index and
\* middle fingertips, when the ring and little fingertips are below the
\* middle fingertip.
IsPeaceSign(lm) ==
    LET index_middle_distance == Distance(lm.index_tip_x, lm.middle_tip_x)
        ring_curled  == lm.ring_tip_y > lm.middle_tip_y
        pinky_curled == lm.pinky_tip_y > lm.middle_tip_y
    IN  ClampConfidence(IF ring_curled /\ pinky_curled
                        THEN (index_middle_distance * 7) \div 10 ELSE 0)

\* lines 218-221: the y of the five fingertips, and 500 times their
\* variance (np.var, the population variance) in hundredths:
\* 5 * var = (5 * sum(y^2) - sum(y)^2) / 5, over 10000 and times 100.
FingertipYs(lm) ==
    <<lm.thumb_tip_y, lm.index_tip_y, lm.middle_tip_y, lm.ring_tip_y,
      lm.pinky_tip_y>>

FiveTimesVariance(ys) ==
    LET sum     == ys[1] + ys[2] + ys[3] + ys[4] + ys[5]
        squares == ys[1] * ys[1] + ys[2] * ys[2] + ys[3] * ys[3]
                   + ys[4] * ys[4] + ys[5] * ys[5]
    IN  (5 * squares - sum * sum) \div 500

\* lines 215-233: 1 - 5 * variance of the fingertips' y, when every
\* fingertip is above the wrist plus 0.1.
IsOpenPalm(lm) ==
    LET ys == FingertipYs(lm)
        fingers_extended == \A i \in DOMAIN ys : ys[i] < lm.palm_y + 10
    IN  ClampConfidence(IF fingers_extended THEN 100 - FiveTimesVariance(ys)
                        ELSE 0)

\* lines 235-258: 0.8 when the index fingertip is more than 0.05 above its
\* joint and the three other fingertips are below that joint.
IsPointing(lm) ==
    LET index_extended == lm.index_tip_y < lm.index_pip_y - 5
        others_curled  == /\ lm.middle_tip_y > lm.index_pip_y
                          /\ lm.ring_tip_y > lm.index_pip_y
                          /\ lm.pinky_tip_y > lm.index_pip_y
    IN  IF index_extended /\ others_curled THEN 80 ELSE 0

\* lines 92-128: the four confidences _analyze_hand_gesture compares.
LandmarkHand(lm) ==
    Hand(IsThumbsUp(lm), IsPeaceSign(lm), IsOpenPalm(lm), IsPointing(lm))

\* Coordinates inside the image: its edges and its middle.
FrameCoordinates == {0, 50, 100}

\* Hands whose landmarks are all inside the image: the wrist in the middle
\* or at the bottom edge, the index joint in the middle, the middle
\* fingertip at the left or the right edge, every other coordinate at each
\* edge and in the middle.
InFrameHands ==
    {HandLandmarks(a, b, c, 50, e, f, g, h, i, j) :
        a \in {50, 100}, b \in FrameCoordinates, c \in FrameCoordinates,
        e \in FrameCoordinates, f \in FrameCoordinates,
        g \in FrameCoordinates, h \in FrameCoordinates, i \in FrameCoordinates,
        j \in {0, 100}}

\* Hands with a landmark estimated outside the image: a thumb tip above
\* the top edge; an index fingertip left of the left edge; both.
OutOfFrameHands ==
    {HandLandmarks(100, 100, -50, 50, 50, 50, 50, 50, 50, 50),
     HandLandmarks(50, 50, 50, 50, 50, 0, 100, 100, -50, 100),
     HandLandmarks(100, 100, -50, 50, 50, 0, 100, 100, -50, 100)}

LandmarkHands == InFrameHands \cup OutOfFrameHands

\* Before any hand was classified from its landmarks.
NoLandmarks == Absent

\* Candidates fed to the stabilizer directly.
Candidates ==
    {Candidate("neutral", 0, EmptyDetails),
     Candidate("neutral", 90, DetailsOf("neutral")),
     Candidate("open_palm", 50, DetailsOf("open_palm")),
     Candidate("open_palm", 90, DetailsOf("open_palm")),
     Candidate("pointing", 90, DetailsOf("pointing"))}

\* Per-frame inputs of the agents: the hand classifier's result, and the
\* results of detect_blink and detect_expression (both Absent without a face).
Blink(detected, type) == [blink_detected |-> detected, blink_type |-> type]

Expression(e, c) == [expression |-> e, confidence |-> c, mood |-> e]

Facial(b, e) == [blink |-> b, expression |-> e]

Input(h, f) == [hand |-> h, facial |-> f]

OpenPalm == Candidate("open_palm", 90, DetailsOf("open_palm"))

NoFace == Facial(Absent, Absent)

\* What detect_expression returns for the features f on a fresh detector,
\* as the expression of the facial data (confidence in hundredths).
FirstExpression(f) ==
    Expression(DetectExpression(<<>>, f).info.expression,
               (100 * DetectExpression(<<>>, f).info.confidence.n)
                   \div DetectExpression(<<>>, f).info.confidence.d)

\* The facial data of a frame with two smile boxes and no blink.
SmilingFace ==
    Facial(Blink(FALSE, None),
           FirstExpression(ExprFeatures(2, 2, 120, 10, 120, 10, 400, 10, 130)))

\* Dictionaries given to analyze_gesture: {'hands': None, 'pose': None}; {};
\* a hand with too few landmarks; a pose with too few landmarks; a flat
\* open palm; a raised hand in the pose; a face with two smile boxes; an
\* open palm, a raised hand and a happy face together; a thumb at 0.72 (its
\* tip outside the frame) with a raised hand; a fist, no raised hand and a
\* happy face; a raised hand and a happy face; a sad face at 0.4.
GestureDataInputs ==
    {EmptyGestureData,
     GestureData(FALSE, FALSE, <<>>, Absent, Absent),
     GestureData(TRUE, TRUE, <<MalformedHand>>, Absent, Absent),
     GestureData(TRUE, TRUE, <<>>, Pose(TRUE, FALSE), Absent),
     GestureData(TRUE, TRUE, <<Hand(0, 0, 98, 0)>>, Absent, Absent),
     GestureData(TRUE, TRUE, <<>>, Pose(FALSE, TRUE), Absent),
     GestureData(TRUE, TRUE, <<>>, Absent, SmilingFace),
     GestureData(TRUE, TRUE, <<Hand(0, 0, 98, 0)>>, Pose(FALSE, TRUE),
                 SmilingFace),
     GestureData(TRUE, TRUE, <<Hand(72, 0, 0, 0)>>, Pose(FALSE, TRUE), Absent),
     GestureData(TRUE, TRUE, <<Hand(0, 0, 0, 0)>>, Pose(FALSE, FALSE),
                 SmilingFace),
     GestureData(TRUE, TRUE, <<>>, Pose(FALSE, TRUE),
                 SmilingFace),
     GestureData(TRUE, TRUE, <<>>, Absent,
                 Facial(Blink(FALSE, None), Expression("sad", 40)))}

FrameInputs ==
    {Input(Absent, NoFace),
     Input(OpenPalm, NoFace),
     Input(Absent, Facial(Blink(FALSE, None), Expression("happy", 90))),
     Input(Absent, Facial(Blink(TRUE, "single_blink"), Expression("neutral", 65))),
     Input(Absent, Facial(Blink(TRUE, "double_blink"), Expression("happy", 90))),
     Input(OpenPalm, Facial(Blink(TRUE, "single_blink"), Expression("happy", 90)))}

(***************************************************************************)
(* The gesture subscribers registered with register_gesture_callback       *)
(* (src/gesture_processor.py lines 28-31), in registration order: two      *)
(* subscribers for the processor on its own, the first of which raises     *)
(* when called; _gesture_cb in main.py; gesture_callback in                *)
(* main_enhanced.py.                                                       *)
(***************************************************************************)
GestureCallbacks(p) ==
    CASE p = "processor" -> <<"raising_subscriber", "subscriber">>
      [] p = "main"      -> <<"_gesture_cb">>
      [] p = "app"       -> <<"gesture_callback">>
      [] OTHER           -> <<>>

\* lines 311-318: every subscriber is called in order; an exception of one
\* is caught (lines 315-316) and the loop goes on.  The subscribers called.
RECURSIVE NotifySubscribers(_)
NotifySubscribers(cbs) ==
    IF cbs = <<>> THEN <<>>
    ELSE <<Head(cbs)>> \o NotifySubscribers(Tail(cbs))

\* Which actuator raises in a frame, if any.
RaiseChoices == {"none"} \cup Categories

(***************************************************************************)
(* State.                                                                  *)
(***************************************************************************)
VARIABLES
    program,                 \* which entry point runs: "processor" (the
                             \* GestureProcessor alone), "main" (main.py),
                             \* "app" (app.py with main_enhanced.py)
    gesture_buffer,          \* GestureProcessor.gesture_buffer
    last_confirmed_gesture,  \* GestureProcessor.last_confirmed_gesture
    gesture_hold_frames,     \* GestureProcessor.gesture_hold_frames
    result,                  \* the last value returned by _smooth_gesture
    ingested,                \* candidates taken so far, counted up to
                             \* buffer_size; buffer_size + 1 stands for more
    now,                     \* time.time()
    last_gesture_time,       \* GestureAIAgent.last_gesture_time
    last_blink_action_time,  \* GestureAIAgent.last_blink_action_time
    last_mood_action_time,   \* GestureAIAgent.last_mood_action_time
    invocations,             \* per category: actuator invocations so far,
                             \* counted up to MaxCount
    last_invocation,         \* per category: time of the latest one, -1 if none
    spaced,                  \* per category: every two invocations so far were
                             \* at least the category's interval apart
    frame,                   \* what the last processed frame brought and did
    candidate,               \* the candidate of the last _smooth_gesture call
    notified,                \* the gesture subscribers called by the last
                             \* _smooth_gesture call, in call order
    loop,                    \* the sensing loop: "running", or "crashed" once
                             \* an exception has left it
    wearing_glasses,         \* FacialDetector.wearing_glasses; detect_blink is
                             \* followed in either mode
    glasses_frames,          \* FacialDetector.glasses_frames
    no_glasses_frames,       \* FacialDetector.no_glasses_frames
    both_eyes_closed_frames, \* FacialDetector.both_eyes_closed_frames
    blink_count,             \* FacialDetector.blink_count
    blink_buffer,            \* FacialDetector.blink_buffer
    blink_info,              \* the last value returned by detect_blink
    current_time,            \* time.time() of the detector, in ticks
    face_frame,              \* the features of the last frame given to
                             \* detect_face_and_features
    eye_signal,              \* what the last call of the detector read from the
                             \* eyes: "open", "closed", or "none" when it was
                             \* given no face or read no frame
    closed_run,              \* the frames with a face in a row, up to the last
                             \* one, whose eye signal read closed
    opposite_run,            \* the frames in a row, up to the last one, that
                             \* indicated the mode opposite to wearing_glasses
    expression_history,      \* FacialDetector.expression_history
    expression_info,         \* the last value returned by detect_expression
    mood_notified,           \* the calls of mood observers made by the last
                             \* call of detect_expression, in order
    hands,                   \* the hands given to the last call of
                             \* _analyze_hand_gesture
    hand_gesture,            \* what that call returned or raised
    landmarks,               \* the landmarks of the hand given to that call,
                             \* when it was given one hand as landmarks
    analyze_raised,          \* the exception that left the last call of
                             \* analyze_gesture, None when it returned
    only_empty,              \* every call of analyze_gesture so far was given
                             \* {'hands': None, 'pose': None}
    gesture_data,            \* the dictionary the last call of analyze_gesture
                             \* was given
    twin_buffer,             \* gesture_buffer of a second GestureProcessor that
                             \* is fed the same candidates
    twin_last,               \* its last_confirmed_gesture
    twin_hold,               \* its gesture_hold_frames
    twin_result,             \* the last value its _smooth_gesture returned
    agent_exists,            \* app.py: the global agent is not None
    agent_running,           \* app.py: agent.running
    agent_state_running,     \* app.py: agent_state['running']
    agent_threads,           \* app.py: where each live run_agent thread stands
    response,                \* app.py: what the last /api request answered
    wall_clock,              \* time.time(), in ticks of half a second
    burst_buffer,            \* main.py: facial_detector.blink_buffer, in ticks
    blink_action_tick,       \* main.py: last_blink_action_time, in ticks
    blink_now,               \* the last blink: its timestamp, its type, whether
                             \* its action was executed, and when
    blink_before,            \* the blink before the last one
    burst_first,             \* the last blink classified single_blink
    last_expression,         \* facial_detector.last_expression
    dominant_run,            \* the dominant label of the last successful call
                             \* of detect_expression and the number, up to 5,
                             \* of successful calls in a row that had it
    stamp_clock,             \* time.time() at the last blink, in ticks
    blink_deque,             \* facial_detector.blink_buffer, fed with the stamps
    blink_log,               \* every stamp since the last reset
    deque_type,              \* the last blink classified from blink_deque
    log_type,                \* the last blink classified from blink_log
    microphone_available,    \* VoiceCommander.microphone_available
    is_listening,            \* VoiceCommander.is_listening
    listen_thread,           \* VoiceCommander.listen_thread: the thread started
                             \* last, 0 for None
    listeners,               \* where each _listen_loop thread stands
    told_to_stop,            \* the threads that were alive during a call of
                             \* stop_listening
    voice_caller,            \* where the caller of the VoiceCommander stands
    voice_call,              \* the last step taken on the VoiceCommander
    music_process,           \* MoodMusicPlayer.music_process: the track its
                             \* process plays, None without a process
    current_track,           \* MoodMusicPlayer.current_track
    is_playing,              \* MoodMusicPlayer.is_playing
    music_call               \* the last call on the MoodMusicPlayer: its name,
                             \* its track, what it returned and music_process
                             \* before it

vars == <<program, gesture_buffer, last_confirmed_gesture, gesture_hold_frames,
          result, ingested, now, last_gesture_time, last_blink_action_time,
          last_mood_action_time, invocations, last_invocation, spaced, frame,
          candidate, notified, loop, wearing_glasses, glasses_frames,
          no_glasses_frames, both_eyes_closed_frames, blink_count, blink_buffer,
          blink_info, current_time, face_frame, eye_signal, closed_run,
          opposite_run, expression_history, expression_info, mood_notified,
          hands, hand_gesture, landmarks, analyze_raised, only_empty, gesture_data, twin_buffer,
          twin_last, twin_hold, twin_result, agent_exists, agent_running,
          agent_state_running, agent_threads, response, wall_clock,
          burst_buffer, blink_action_tick, blink_now, blink_before, burst_first,
          stamp_clock, blink_deque, blink_log, deque_type, log_type,
          dominant_run, last_expression, microphone_available, is_listening,
          listen_thread, listeners, told_to_stop, voice_caller, voice_call,
          music_process, current_track, is_playing, music_call>>

stabilizer == <<gesture_buffer, last_confirmed_gesture, gesture_hold_frames, result,
                ingested, candidate, notified>>

agent == <<now, last_gesture_time, last_blink_action_time, last_mood_action_time,
           invocations, last_invocation, spaced, frame, loop>>

detector == <<wearing_glasses, glasses_frames, no_glasses_frames,
              both_eyes_closed_frames, blink_count, blink_buffer, blink_info,
              current_time, face_frame, eye_signal, closed_run, opposite_run>>

expressions == <<expression_history, expression_info, mood_notified,
                 dominant_run, last_expression>>

\* lines 306-308 over the calls: the run of successful calls with the same
\* dominant label, counted up to the length of the history.
DominantRun(run, dom) ==
    IF run.label = dom
    THEN [run EXCEPT !.count = UpTo(run.count + 1, expression_history_maxlen)]
    ELSE [label |-> dom, count |-> 1]

classifier == <<hands, hand_gesture, landmarks>>

analysis == <<analyze_raised, only_empty, gesture_data>>

twin == <<twin_buffer, twin_last, twin_hold, twin_result>>

server == <<agent_exists, agent_running, agent_state_running, agent_threads,
            response>>

responder == <<wall_clock, burst_buffer, blink_action_tick, blink_now,
               blink_before, burst_first>>

bursts == <<stamp_clock, blink_deque, blink_log, deque_type, log_type>>

\* The fields of the VoiceCommander and its threads.
voice == <<microphone_available, is_listening, listen_thread, listeners,
           told_to_stop, voice_caller, voice_call>>

\* The fields of the MoodMusicPlayer.
music == <<music_process, current_track, is_playing, music_call>>

\* The _listen_loop threads that can be alive together.
ListenerIds == 1..MaxListeners

\* The threads inside _listen_loop: at the test of line 62 or in its body.
LiveListeners(ls) == {t \in ListenerIds : ls[t] \in {"test", "listening"}}

Threads == 1..MaxThreads

\* The threads inside the while loop of run_agent (lines 207-397): at its
\* test or in its body.
InLoop(threads) == {t \in Threads : threads[t] \in {"loop", "frame"}}

\* The candidates the frames of the served loop hand to the stabilizer: the
\* camera shows an open palm.  (Other candidates go through the stabilizer in
\* the processor, main and app programs.)
ServedCandidates == {OpenPalm}

\* Nothing was returned yet.
NoResult ==
    [gesture_type |-> None,
     confidence   |-> Q(0, 100),
     details      |-> EmptyDetails,
     stable       |-> "absent"]

NoFrame ==
    [seen    |-> [c \in Categories |-> FALSE],
     event   |-> [c \in Categories |-> FALSE],
     elapsed |-> [c \in Categories |-> FALSE],
     changed |-> [c \in Categories |-> FALSE],
     n       |-> [c \in Categories |-> 0],
     sync    |-> [c \in Categories |-> 0],
     raised  |-> FALSE]

Init ==
    /\ program \in {"processor", "main", "app", "glasses", "blink", "expression",
                    "hands", "analyze", "server", "respond",
                    "burst", "landmarks", "voice", "music"}
    /\ gesture_buffer = <<>>
    /\ last_confirmed_gesture = None
    /\ gesture_hold_frames = 0
    /\ result = NoResult
    /\ ingested = 0
    /\ now = StartTime
    /\ last_gesture_time = 0
    /\ last_blink_action_time = 0
    /\ last_mood_action_time = 0
    /\ invocations = [c \in Categories |-> 0]
    /\ last_invocation = [c \in Categories |-> -1]
    /\ spaced = [c \in Categories |-> TRUE]
    /\ frame = NoFrame
    /\ candidate = DefaultCandidate
    /\ notified = <<>>
    /\ loop = "running"
    /\ wearing_glasses \in (IF program = "blink" THEN BOOLEAN ELSE {FALSE})
    /\ glasses_frames = 0
    /\ no_glasses_frames = 0
    /\ both_eyes_closed_frames = 0
    /\ blink_count = 0
    /\ blink_buffer = <<>>
    /\ blink_info = Absent
    /\ current_time = 0
    /\ face_frame = NoFaceFeatures
    /\ eye_signal = "none"
    /\ closed_run = 0
    /\ opposite_run = 0
    /\ expression_history = <<>>
    /\ expression_info = Absent
    /\ mood_notified = <<>>
    /\ hands = <<>>
    /\ hand_gesture = Absent
    /\ landmarks = NoLandmarks
    /\ analyze_raised = None
    /\ only_empty = TRUE
    /\ gesture_data = Absent
    /\ twin_buffer = <<>>
    /\ twin_last = None
    /\ twin_hold = 0
    /\ twin_result = NoResult
    /\ agent_exists = FALSE
    /\ agent_running = FALSE
    /\ agent_state_running = FALSE
    /\ agent_threads = [t \in Threads |-> "none"]
    /\ response = None
    /\ wall_clock = blink_cooldown_ticks
    /\ burst_buffer = <<>>
    /\ blink_action_tick = 0
    /\ blink_now = Absent
    /\ blink_before = Absent
    /\ burst_first = Absent
    /\ dominant_run = [label |-> None, count |-> 0]
    /\ last_expression = "neutral"
    /\ stamp_clock = 0
    /\ blink_deque = <<>>
    /\ blink_log = <<>>
    /\ deque_type = None
    /\ log_type = None
    /\ microphone_available \in (IF program = "voice" THEN BOOLEAN ELSE {FALSE})
    /\ is_listening = FALSE
    /\ listen_thread = 0
    /\ listeners = [t \in ListenerIds |-> "none"]
    /\ told_to_stop = [t \in ListenerIds |-> FALSE]
    /\ voice_caller = "idle"
    /\ voice_call = "none"
    /\ music_process = None
    /\ current_track = None
    /\ is_playing = FALSE
    /\ music_call = Absent

\* The stabilizer takes candidate g.
Stabilize(g) ==
    \E sm \in {SmoothGesture(gesture_buffer, last_confirmed_gesture,
                               gesture_hold_frames, g)} :
        /\ gesture_buffer' = sm.buffer
        /\ last_confirmed_gesture' = sm.last
        /\ gesture_hold_frames' = sm.hold
        /\ result' = sm.result
        /\ candidate' = g
        /\ notified' = IF sm.notify THEN NotifySubscribers(GestureCallbacks(program))
                       ELSE <<>>
        /\ ingested' = IF ingested < buffer_size THEN ingested + 1 ELSE buffer_size + 1

\* The bookkeeping of a frame at time t that called the actuator of
\* category c n[c] times, sy[c] of them on the sensing thread itself, and
\* moved the timestamps from before to after; sn[c]: the detector of
\* category c reported something in the frame, ev[c]: it reported an event
\* the category reacts to; rs: an actuator called in the frame raised.
Record(t, n, sy, rs, before, after, sn, ev) ==
    /\ now' = t
    /\ last_gesture_time' = after.gesture
    /\ last_blink_action_time' = after.blink
    /\ last_mood_action_time' = after.mood
    /\ invocations' = [c \in Categories |->
           IF invocations[c] + n[c] > MaxCount THEN MaxCount + 1
           ELSE invocations[c] + n[c]]
    /\ last_invocation' =
           [c \in Categories |-> IF n[c] > 0 THEN t ELSE last_invocation[c]]
    /\ spaced' =
           [c \in Categories |->
               /\ spaced[c]
               /\ n[c] <= 1
               /\ n[c] = 1 /\ last_invocation[c] >= 0
                      => t - last_invocation[c] >= Interval(c)]
    /\ frame' =
           [seen    |-> sn,
            event   |-> ev,
            elapsed |-> [c \in Categories |-> t - before[c] >= Interval(c)],
            changed |-> [c \in Categories |-> after[c] # before[c]],
            n       |-> n,
            sync    |-> sy,
            raised  |-> rs]

\* GestureProcessor._smooth_gesture called with a candidate.
SmoothGestureCall ==
    /\ program = "processor"
    /\ \E g \in Candidates :
         /\ Stabilize(g)
         /\ \E sm \in {SmoothGesture(InstanceWindow(twin_buffer, gesture_buffer'),
                                      twin_last, twin_hold, g)} :
               /\ twin_buffer' = sm.buffer
               /\ twin_last' = sm.last
               /\ twin_hold' = sm.hold
               /\ twin_result' = sm.result
    /\ UNCHANGED <<program, voice, music, agent, detector, expressions, classifier, analysis,
                   server, responder, bursts>>

Count(b) == IF b THEN 1 ELSE 0

\* A mood event: a non-neutral expression above the mood confidence threshold.
MoodEvent(expr) ==
    /\ expr # Absent
    /\ expr.mood # "neutral"
    /\ expr.confidence > mood_confidence_threshold

\* A blink event: a detected blink with its burst type.
BlinkEvent(blink) ==
    /\ blink # Absent
    /\ blink.blink_detected
    /\ blink.blink_type # None

(***************************************************************************)
(* src/main.py, one processed frame of GestureAIAgent.run (lines 369-376): *)
(* detect_gestures calls detect_expression, which calls _mood_cb (lines    *)
(* 51-55, a thread running execute_mood_action, no cooldown); then         *)
(* process_gesture_and_respond calls analyze_gesture, which on a stable    *)
(* result calls _gesture_cb (lines 62-64, a thread running handle_gesture, *)
(* no cooldown), and runs the blink, mood and gesture blocks.              *)
(***************************************************************************)
MainFrame ==
    /\ program = "main"
    /\ loop = "running"
    /\ now < MaxTime
    /\ \E inp \in FrameInputs :
      /\ Stabilize(AnalyzeCandidate(inp.hand, Absent, inp.facial))
      /\ \E dt \in 1..MaxStep, raises \in RaiseChoices :
         LET t      == now + dt
             hand   == inp.hand
             facial == inp.facial
             before == Times(last_gesture_time, last_blink_action_time,
                             last_mood_action_time)
             stable == result'.stable = "true"
             \* line 270 raises before line 271 stamps the timer
             blinkDue    == MainBlinkDue(facial.blink, t, before)
             blinkRaised == blinkDue /\ raises = "blink"
             t1     == IF blinkRaised THEN before
                       ELSE MainBlinkBlock(facial.blink, t, before)
             \* lines 281-284 raise before line 286
             moodDue     == ~blinkRaised /\ MainMoodDue(facial.expression, t, t1)
             moodRaised  == moodDue /\ raises = "mood"
             t2     == IF blinkRaised \/ moodRaised THEN t1
                       ELSE MainMoodBlock(facial.expression, t, t1)
             \* line 305 raises before line 308
             gestureDue    == /\ ~blinkRaised
                              /\ ~moodRaised
                              /\ MainGestureDue(result', t, t2)
             gestureRaised == gestureDue /\ raises = "gesture"
             t3     == IF blinkRaised \/ moodRaised \/ gestureRaised THEN t2
                       ELSE MainGestureBlock(result', t, t2)
             \* the calls made on worker threads: _mood_cb and _gesture_cb
             workers == [c \in Categories |->
                          CASE c = "blink"   -> 0
                            [] c = "mood"    -> Count(MoodCallbacksFire(facial.expression))
                            [] c = "gesture" -> Count(stable)]
             \* the calls made by process_gesture_and_respond itself
             sy     == [c \in Categories |->
                          CASE c = "blink"   -> Count(blinkDue)
                            [] c = "mood"    -> Count(moodDue)
                            [] c = "gesture" -> Count(gestureDue)]
             n      == [c \in Categories |-> workers[c] + sy[c]]
             sn     == [c \in Categories |->
                          CASE c = "blink"   -> BlinkEvent(facial.blink)
                            [] c = "mood"    -> facial.expression # Absent
                            [] c = "gesture" -> stable]
             ev     == [c \in Categories |->
                          CASE c = "blink"   -> BlinkEvent(facial.blink)
                            [] c = "mood"    -> MoodEvent(facial.expression)
                            [] c = "gesture" -> stable]
         IN  /\ t <= MaxTime
             /\ \E b0 \in {before}, after \in {t3}, nn \in {n}, ss \in {sy} :
                   Record(t, nn, ss, raises # "none" /\ nn[raises] > 0,
                          b0, after, sn, ev)
             \* run (lines 348-376) has no handler around the call
             /\ loop' = IF blinkRaised \/ moodRaised \/ gestureRaised
                        THEN "crashed" ELSE "running"
    /\ UNCHANGED <<program, voice, music, detector, expressions, classifier, analysis, twin, server, responder, bursts>>

(***************************************************************************)
(* src/app.py, one processed frame of run_agent (lines 217-287) with the   *)
(* callbacks main_enhanced.py registered: detect_expression calls          *)
(* mood_callback, analyze_gesture calls gesture_callback on a stable       *)
(* result.  The blink result is only logged (lines 357-360).               *)
(***************************************************************************)
AppFrame ==
    /\ program = "app"
    /\ loop = "running"
    /\ now < MaxTime
    /\ \E inp \in FrameInputs :
      /\ Stabilize(AnalyzeCandidate(inp.hand, Absent, inp.facial))
      /\ \E dt \in 1..MaxStep, raises \in RaiseChoices :
         LET t      == now + dt
             hand   == inp.hand
             facial == inp.facial
             before == Times(last_gesture_time, last_blink_action_time,
                             last_mood_action_time)
             expr   == facial.expression
             fires  == MoodCallbacksFire(expr)
             \* mood_callback starts a thread and stamps the timer
             t1     == IF fires THEN EnhMoodCallback(expr.confidence, t, before)
                       ELSE before
             stable == result'.stable = "true"
             \* gesture_callback calls handle_gesture itself (line 141); when
             \* that raises, line 142 is not reached and _smooth_gesture
             \* catches the exception (lines 315-316)
             gestureDue    == stable /\ EnhGestureDue(t, t1)
             gestureRaised == gestureDue /\ raises = "gesture"
             t2     == IF stable /\ ~gestureRaised THEN EnhGestureCallback(t, t1)
                       ELSE t1
             n      == [c \in Categories |->
                          CASE c = "blink" -> 0
                            [] c = "mood" ->
                                 Count(fires /\ EnhMoodDue(expr.confidence, t, before))
                            [] c = "gesture" -> Count(gestureDue)]
             sy     == [c \in Categories |->
                          CASE c = "gesture" -> Count(gestureDue)
                            [] OTHER         -> 0]
             sn     == [c \in Categories |->
                          CASE c = "blink"   -> FALSE
                            [] c = "mood"    -> facial.expression # Absent
                            [] c = "gesture" -> stable]
             ev     == [c \in Categories |->
                          CASE c = "blink"   -> FALSE
                            [] c = "mood"    -> MoodEvent(facial.expression)
                            [] c = "gesture" -> stable]
         IN  /\ t <= MaxTime
             /\ \E b0 \in {before}, after \in {t2}, nn \in {n}, ss \in {sy} :
                   Record(t, nn, ss, raises # "none" /\ nn[raises] > 0,
                          b0, after, sn, ev)
             \* no actuator exception reaches run_agent: the mood actuator
             \* runs on its own thread, the gesture subscriber is guarded
             /\ loop' = "running"
    /\ UNCHANGED <<program, voice, music, detector, expressions, classifier, analysis, twin, server, responder, bursts>>

\* The mode a frame indicates to the glasses hysteresis (lines 90 and 95).
Indicates(f) ==
    IF f.eyes_with_glasses > 0 /\ f.eyes = 0 THEN "glasses"
    ELSE IF f.eyes > 0 THEN "no_glasses"
    ELSE "neither"

OppositeMode(wearing) == IF wearing THEN "no_glasses" ELSE "glasses"

(***************************************************************************)
(* FacialDetector.detect_face_and_features on one frame, lines 43-119: the *)
(* glasses hysteresis.  A frame without a face returns at line 57.         *)
(***************************************************************************)
DetectFaceAndFeatures ==
    /\ program = "glasses"
    /\ \E f \in FaceFrames :
         /\ face_frame' = f
         /\ IF ~f.face
            THEN /\ opposite_run' = 0
                 /\ UNCHANGED <<wearing_glasses, glasses_frames,
                                no_glasses_frames>>
            ELSE \E gs \in {GlassesStatus(wearing_glasses, glasses_frames,
                                          no_glasses_frames, f)} :
                    /\ wearing_glasses' = gs.wearing_glasses
                    /\ glasses_frames' = gs.glasses_frames
                    /\ no_glasses_frames' = gs.no_glasses_frames
                    /\ opposite_run' =
                           IF /\ Indicates(f) = OppositeMode(wearing_glasses)
                              /\ gs.wearing_glasses = wearing_glasses
                           THEN UpTo(opposite_run + 1, glasses_confirm_frames + 1)
                           ELSE 0
    /\ UNCHANGED <<program, voice, music, stabilizer, agent, expressions, classifier,
                   analysis, twin, server, responder, bursts,
                   both_eyes_closed_frames,
                   blink_count, blink_buffer, blink_info, current_time,
                   eye_signal, closed_run>>

\* What detect_blink reads from the eyes of the features f (lines 124, 156
\* and 176).
EyeSignal(wearing, f) ==
    IF BlinkReturnsNone(f) THEN "none"
    ELSE IF EyesClosed(wearing, f.eyes, f.eye_brightness) THEN "closed"
    ELSE "open"

(***************************************************************************)
(* FacialDetector.detect_blink on the features of one frame, lines         *)
(* 121-205.  Without features it returns None at line 124.                 *)
(***************************************************************************)
DetectBlinkCall ==
    /\ program = "blink"
    /\ \E f \in BlinkFrames :
         /\ eye_signal' = EyeSignal(wearing_glasses, f)
         /\ IF BlinkReturnsNone(f)
            THEN \* the clock is read at line 144, after the early returns
                 \E rb \in {RejectBlink(both_eyes_closed_frames, blink_count,
                                        blink_buffer)} :
                    /\ both_eyes_closed_frames' = rb.both_eyes_closed_frames
                    /\ blink_count' = rb.blink_count
                    /\ blink_buffer' = rb.blink_buffer
                    /\ blink_info' = Absent
                    /\ UNCHANGED <<current_time, closed_run>>
            ELSE \E dt \in 0..MaxTickStep :
                  LET t == current_time + dt
                  IN  /\ t <= MaxTick
                      /\ current_time' = t
                      /\ \E db \in {DetectBlink(wearing_glasses,
                                            both_eyes_closed_frames, blink_count,
                                            blink_buffer, f.eyes,
                                            f.eye_brightness, t, MaxBlinkCount)} :
                        /\ both_eyes_closed_frames' = db.both_eyes_closed_frames
                        /\ blink_count' = db.blink_count
                        /\ blink_buffer' = db.blink_buffer
                        /\ blink_info' = db.blink_info
                        /\ closed_run' =
                               IF eye_signal' = "closed"
                               THEN UpTo(closed_run + 1, blink_frames_threshold + 1)
                               ELSE 0
    /\ UNCHANGED <<program, voice, music, stabilizer, agent, expressions, classifier,
                   analysis, twin, server, responder, bursts,
                   wearing_glasses, glasses_frames,
                   no_glasses_frames, face_frame, opposite_run>>

\* FacialDetector.reset_blink_counter, lines 394-397 (key 'r' in main.py).
\* No frame is read and nothing is returned.
ResetBlinkCounter ==
    /\ program = "blink"
    /\ blink_count' = 0
    /\ blink_buffer' = <<>>
    /\ eye_signal' = "reset"
    /\ blink_info' = Absent
    /\ UNCHANGED <<program, voice, music, stabilizer, agent, expressions, classifier,
                   analysis, twin, server, responder, bursts,
                   wearing_glasses, glasses_frames,
                   no_glasses_frames, both_eyes_closed_frames, current_time,
                   face_frame, closed_run, opposite_run>>

(***************************************************************************)
(* FacialDetector.detect_expression on the features of one frame, lines    *)
(* 218-348.  Without features it returns None at line 221.                 *)
(***************************************************************************)
DetectExpressionCall ==
    /\ program = "expression"
    /\ \E f \in ExprFrames :
         IF ExpressionReturnsNone(f)
         THEN /\ expression_info' = Absent
              /\ mood_notified' = <<>>
              /\ UNCHANGED <<expression_history, dominant_run, last_expression>>
         ELSE \E de \in {DetectExpression(expression_history, f)} :
                 /\ last_expression' = de.info.expression
                 /\ expression_history' = de.expression_history
                 /\ dominant_run' =
                        DominantRun(dominant_run,
                                    DominantExpression(ExpressionScores(f)))
                 /\ expression_info' = de.info
                 /\ mood_notified' = MoodNotifications(de.info)
    /\ UNCHANGED <<program, voice, music, stabilizer, agent, detector, classifier, analysis, twin, server, responder, bursts>>

\* GestureProcessor._analyze_hand_gesture called with the hands of a frame.
AnalyzeHandGestureCall ==
    /\ program = "hands"
    /\ \E hs \in HandLists :
         /\ hands' = hs
         /\ hand_gesture' = AnalyzeHandGesture(hs)
         /\ landmarks' = NoLandmarks
    /\ UNCHANGED <<program, voice, music, stabilizer, agent, detector, expressions, analysis, twin, server, responder, bursts>>

(***************************************************************************)
(* GestureProcessor.analyze_gesture called with a dictionary (lines        *)
(* 33-83): the candidate goes through _smooth_gesture (line 80); an        *)
(* exception leaves the method before the stabilizer is touched.           *)
(***************************************************************************)
AnalyzeGestureCall ==
    /\ program = "analyze"
    /\ \E data \in GestureDataInputs :
         \E out \in {AnalyzeGesture(data)} :
            /\ only_empty' = (only_empty /\ data = EmptyGestureData)
            /\ gesture_data' = data
            /\ IF IsRaised(out)
               THEN /\ analyze_raised' = out.raised
                    /\ UNCHANGED stabilizer
               ELSE /\ analyze_raised' = None
                    /\ Stabilize(out)
    /\ UNCHANGED <<program, voice, music, agent, detector, expressions, classifier, twin,
                   server, responder, bursts>>

(***************************************************************************)
(* app.py: the Flask server (threaded=True, line 671).  /api/start and     *)
(* /api/stop run under agent_lock; run_agent runs in the thread api_start  *)
(* creates and never takes the lock.                                       *)
(***************************************************************************)
\* Everything but the server's state, the stabilizer left alone as well.
ServerFrame == <<program, voice, music, agent, detector, expressions, classifier, analysis,
                 twin, responder, bursts>>

\* api_start, lines 451-467.
ApiStart ==
    /\ program = "server"
    /\ IF agent_state_running
       THEN /\ response' = "400 Agent already running"
            /\ UNCHANGED <<agent_exists, agent_running, agent_state_running,
                           agent_threads>>
       ELSE \E ok \in (IF agent_exists THEN {TRUE} ELSE BOOLEAN) :
               IF ~ok
               THEN /\ response' = "500 Failed to initialize agent"
                    /\ UNCHANGED <<agent_exists, agent_running,
                                   agent_state_running, agent_threads>>
               ELSE /\ \E t \in Threads :
                         /\ agent_threads[t] = "none"
                         /\ \A u \in 1..(t - 1) : agent_threads[u] # "none"
                         /\ agent_threads' = [agent_threads EXCEPT ![t] = "started"]
                    /\ agent_exists' = TRUE
                    /\ response' = "200 Agent started"
                    /\ UNCHANGED <<agent_running, agent_state_running>>
    /\ UNCHANGED <<ServerFrame, stabilizer>>

\* api_stop, lines 470-478.
ApiStop ==
    /\ program = "server"
    /\ agent_running' = (IF agent_exists THEN FALSE ELSE agent_running)
    /\ agent_state_running' = (IF agent_exists THEN FALSE ELSE agent_state_running)
    /\ response' = "200 Agent stopped"
    /\ UNCHANGED <<agent_exists, agent_threads>>
    /\ UNCHANGED <<ServerFrame, stabilizer>>

\* run_agent, lines 183-194: the thread finds the agent and raises both flags.
RunAgentEnter ==
    /\ program = "server"
    /\ \E t \in Threads :
         /\ agent_threads[t] = "started"
         /\ IF agent_exists
            THEN /\ agent_running' = TRUE
                 /\ agent_state_running' = TRUE
                 /\ agent_threads' = [agent_threads EXCEPT ![t] = "camera"]
            ELSE /\ agent_threads' = [agent_threads EXCEPT ![t] = "none"]
                 /\ UNCHANGED <<agent_running, agent_state_running>>
    /\ UNCHANGED <<agent_exists, response>>
    /\ UNCHANGED <<ServerFrame, stabilizer>>

\* run_agent, lines 196-205: the camera is opened, or is not available.
RunAgentOpenCamera ==
    /\ program = "server"
    /\ \E t \in Threads, available \in BOOLEAN :
         /\ agent_threads[t] = "camera"
         /\ IF available
            THEN /\ agent_threads' = [agent_threads EXCEPT ![t] = "loop"]
                 /\ UNCHANGED agent_state_running
            ELSE /\ agent_threads' = [agent_threads EXCEPT ![t] = "finally"]
                 /\ agent_state_running' = FALSE
    /\ UNCHANGED <<agent_exists, agent_running, response>>
    /\ UNCHANGED <<ServerFrame, stabilizer>>

\* run_agent, line 207: the test of the while loop.
RunAgentTest ==
    /\ program = "server"
    /\ \E t \in Threads :
         /\ agent_threads[t] = "loop"
         /\ agent_threads' = [agent_threads EXCEPT ![t] =
                                 IF agent_running /\ agent_state_running
                                 THEN "frame" ELSE "finally"]
    /\ UNCHANGED <<agent_exists, agent_running, agent_state_running, response>>
    /\ UNCHANGED <<ServerFrame, stabilizer>>

\* run_agent, lines 208-397: one pass of the loop body.  A frame that cannot
\* be read leaves the loop (lines 210-212); a frame that is read goes through
\* analyze_gesture (line 290), which steps the stabilizer.
RunAgentFrame ==
    /\ program = "server"
    /\ \E t \in Threads, ret \in BOOLEAN :
         /\ agent_threads[t] = "frame"
         /\ IF ret
            THEN /\ agent_threads' = [agent_threads EXCEPT ![t] = "loop"]
                 /\ \E g \in ServedCandidates : Stabilize(g)
            ELSE /\ agent_threads' = [agent_threads EXCEPT ![t] = "finally"]
                 /\ UNCHANGED stabilizer
    /\ UNCHANGED <<agent_exists, agent_running, agent_state_running, response>>
    /\ UNCHANGED ServerFrame

\* run_agent, lines 401-406: the finally block lowers both flags and the
\* thread ends.
RunAgentFinally ==
    /\ program = "server"
    /\ \E t \in Threads :
         /\ agent_threads[t] = "finally"
         /\ agent_threads' = [agent_threads EXCEPT ![t] = "none"]
    /\ agent_running' = FALSE
    /\ agent_state_running' = FALSE
    /\ UNCHANGED <<agent_exists, response>>
    /\ UNCHANGED <<ServerFrame, stabilizer>>

(***************************************************************************)
(* main.py, one processed frame of run() in which detect_blink emits a     *)
(* blink.  detect_blink stamps the blink with its own reading of the clock *)
(* (facial_detector.py line 144); detect_expression then calls the mood    *)
(* observer _mood_cb on the same thread (main.py lines 51-55), whose       *)
(* music_player.on_mood_detected may stop a running player process and     *)
(* wait for it up to stop_wait_timeout; process_gesture_and_respond reads  *)
(* the clock again (line 262) for the cooldown test.                       *)
(***************************************************************************)
\* main.py lines 266-268, read in ticks.
RespondBlinkDue(type, t, last) ==
    /\ type # None
    /\ t - last >= blink_cooldown_ticks

BlinkRecord(t, type, executed, at) ==
    [t |-> t, type |-> type, executed |-> executed, at |-> at]

RespondToBlink ==
    /\ program = "respond"
    /\ \E gap \in 1..MaxGap, stall \in 0..stop_wait_timeout :
         LET stamp == wall_clock + gap
             t     == stamp + stall
             buf   == AppendBlink(burst_buffer, stamp)
             type  == AnalyzeBlinkPattern(buf, stamp)
             due   == RespondBlinkDue(type, t, blink_action_tick)
         IN  /\ t <= MaxRespondTick
             /\ wall_clock' = t
             /\ burst_buffer' = buf
             /\ blink_action_tick' = (IF due THEN t ELSE blink_action_tick)
             /\ blink_now' = BlinkRecord(stamp, type, due, t)
             /\ blink_before' = blink_now
             /\ burst_first' = (IF type = "single_blink"
                                THEN BlinkRecord(stamp, type, due, t)
                                ELSE burst_first)
    /\ UNCHANGED <<program, voice, music, stabilizer, agent, detector, expressions, classifier,
                   analysis, twin, server, bursts>>

\* The blinks detect_blink emits (facial_detector.py lines 159-163 and
\* 180-185), each stamped with the clock and classified from the deque; the
\* same stamps are logged in a list that is never cut.
BurstBlink ==
    /\ program = "burst"
    /\ Len(blink_log) < MaxLogLen
    /\ \E t \in stamp_clock..MaxBurstTick :
         /\ stamp_clock' = t
         /\ blink_deque' = AppendBlink(blink_deque, t)
         /\ blink_log' = Append(blink_log, t)
         /\ deque_type' = AnalyzeBlinkPattern(AppendBlink(blink_deque, t), t)
         /\ log_type' = AnalyzeBlinkPattern(Append(blink_log, t), t)
    /\ UNCHANGED <<program, voice, music, stabilizer, agent, detector, expressions, classifier,
                   analysis, twin, server, responder>>

\* reset_blink_counter, lines 394-397.
BurstReset ==
    /\ program = "burst"
    /\ blink_deque' = <<>>
    /\ blink_log' = <<>>
    /\ deque_type' = None
    /\ log_type' = None
    /\ UNCHANGED stamp_clock
    /\ UNCHANGED <<program, voice, music, stabilizer, agent, detector, expressions, classifier,
                   analysis, twin, server, responder>>

\* src/gesture_processor.py lines 86-139: one call of _analyze_hand_gesture
\* with one hand, given by its landmarks.
AnalyzeLandmarksCall ==
    /\ program = "landmarks"
    /\ landmarks = NoLandmarks
    /\ \E lm \in LandmarkHands :
         /\ landmarks' = lm
         /\ hands' = <<LandmarkHand(lm)>>
         /\ hand_gesture' = AnalyzeHandGesture(<<LandmarkHand(lm)>>)
    /\ UNCHANGED <<program, voice, music, stabilizer, agent, detector, expressions, analysis,
                   twin, server, responder, bursts>>

(***************************************************************************)
(* src/voice_commander.py: start_listening (lines 37-51) and               *)
(* stop_listening (lines 53-58) called one after the other by one caller,  *)
(* and the _listen_loop threads (lines 60-91) they start.                  *)
(***************************************************************************)
VoiceFrame == <<program, stabilizer, agent, detector, expressions, classifier,
                analysis, twin, server, responder, bursts, music>>

\* start_listening, lines 37-51.  A thread that ended leaves its place to a
\* new one.
StartListening ==
    /\ program = "voice"
    /\ voice_caller = "idle"
    /\ IF ~microphone_available \/ is_listening
       THEN UNCHANGED <<is_listening, listen_thread, listeners, told_to_stop>>
       ELSE \E t \in ListenerIds :
               /\ listeners[t] \in {"none", "ended"}
               /\ \A u \in 1..(t - 1) : listeners[u] \notin {"none", "ended"}
               /\ is_listening' = TRUE
               /\ listen_thread' = t
               /\ listeners' = [listeners EXCEPT ![t] = "test"]
               /\ told_to_stop' = [told_to_stop EXCEPT ![t] = FALSE]
    /\ voice_call' = "start_listening"
    /\ UNCHANGED <<microphone_available, voice_caller>>
    /\ UNCHANGED VoiceFrame

\* stop_listening, lines 55-57: the flag is cleared and the thread started
\* last is joined.
StopListening ==
    /\ program = "voice"
    /\ voice_caller = "idle"
    /\ is_listening' = FALSE
    /\ told_to_stop' = [t \in ListenerIds |->
                           told_to_stop[t] \/ t \in LiveListeners(listeners)]
    /\ voice_caller' = (IF listen_thread # 0 THEN "joining" ELSE "idle")
    /\ voice_call' = "stop_listening"
    /\ UNCHANGED <<microphone_available, listen_thread, listeners>>
    /\ UNCHANGED VoiceFrame

\* stop_listening, lines 57-58: join(timeout=2) returns when the thread has
\* ended, or after 2 seconds while the thread is in recognizer.listen
\* (timeout=5, phrase_time_limit=5, line 68) or recognize_google (line 73).
StopListeningReturn ==
    /\ program = "voice"
    /\ voice_caller = "joining"
    /\ listeners[listen_thread] \in {"ended", "listening"}
    /\ voice_caller' = "idle"
    /\ voice_call' = "stop_listening"
    /\ UNCHANGED <<microphone_available, is_listening, listen_thread, listeners,
                   told_to_stop>>
    /\ UNCHANGED VoiceFrame

\* _listen_loop, line 62: the thread reads is_listening, enters the body or
\* ends.
ListenLoopTest ==
    /\ program = "voice"
    /\ \E t \in ListenerIds :
         /\ listeners[t] = "test"
         /\ listeners' = [listeners EXCEPT
                             ![t] = IF is_listening THEN "listening" ELSE "ended"]
    /\ voice_call' = "loop"
    /\ UNCHANGED <<microphone_available, is_listening, listen_thread,
                   told_to_stop, voice_caller>>
    /\ UNCHANGED VoiceFrame

\* _listen_loop, lines 63-91: listen returns, times out or raises, and the
\* thread is back at line 62.
ListenLoopBody ==
    /\ program = "voice"
    /\ \E t \in ListenerIds :
         /\ listeners[t] = "listening"
         /\ listeners' = [listeners EXCEPT ![t] = "test"]
    /\ voice_call' = "loop"
    /\ UNCHANGED <<microphone_available, is_listening, listen_thread,
                   told_to_stop, voice_caller>>
    /\ UNCHANGED VoiceFrame

(***************************************************************************)
(* src/mood_music_player.py: play_track (lines 166-225) and stop (lines    *)
(* 247-264) of a MoodMusicPlayer whose __init__ succeeded (available is    *)
(* True, line 17).                                                         *)
(***************************************************************************)
\* Paths handed to play_track.
TrackPaths == {"calm.mp3", "playlist/upbeat.mp3"}

\* os.path.basename, line 173.
Basename(path) ==
    CASE path = "calm.mp3"            -> "calm.mp3"
      [] path = "playlist/upbeat.mp3" -> "upbeat.mp3"

\* What the last call was and did.
MusicCall(op, track, returned, before) ==
    [op |-> op, track |-> track, returned |-> returned, process_before |-> before]

\* stop, lines 247-264, as the fields it leaves: with a process (a Popen
\* object is true whether or not its process still runs) it is terminated
\* and waited for, and the fields are cleared; when wait raises (timeout=2)
\* they are left as they are.
StopPlayback(process, track, playing, waited) ==
    IF process # None /\ waited
    THEN [current_track |-> None, is_playing |-> FALSE, returned |-> TRUE]
    ELSE [current_track |-> track, is_playing |-> playing, returned |-> FALSE]

\* play_track, lines 166-225: the fields are set (lines 177-178); when the
\* file exists, stop is called (line 189) and the player process is
\* started (lines 192-210).
PlayTrack ==
    /\ program = "music"
    /\ \E path \in TrackPaths, exists \in BOOLEAN, waited \in BOOLEAN,
          started \in BOOLEAN :
         LET display == Basename(path)
             stopped == StopPlayback(music_process, display, TRUE, waited)
         IN  IF ~exists
             THEN /\ current_track' = display
                  /\ is_playing' = TRUE
                  /\ music_call' = MusicCall("play_track", display, FALSE,
                                             music_process)
                  /\ UNCHANGED music_process
             ELSE /\ current_track' = stopped.current_track
                  /\ is_playing' = stopped.is_playing
                  /\ music_process' = (IF started THEN display ELSE music_process)
                  /\ music_call' = MusicCall("play_track", display, started,
                                             music_process)
    /\ UNCHANGED <<program, voice, stabilizer, agent, detector, expressions,
                   classifier, analysis, twin, server, responder, bursts>>

\* stop, lines 247-264, called on its own.
StopTrack ==
    /\ program = "music"
    /\ \E waited \in BOOLEAN :
         LET stopped == StopPlayback(music_process, current_track, is_playing,
                                     waited)
         IN  /\ current_track' = stopped.current_track
             /\ is_playing' = stopped.is_playing
             /\ music_call' = MusicCall("stop", None, stopped.returned,
                                        music_process)
    /\ UNCHANGED music_process
    /\ UNCHANGED <<program, voice, stabilizer, agent, detector, expressions,
                   classifier, analysis, twin, server, responder, bursts>>

Next ==
    \/ SmoothGestureCall
    \/ MainFrame
    \/ AppFrame
    \/ DetectFaceAndFeatures
    \/ DetectBlinkCall
    \/ ResetBlinkCounter
    \/ DetectExpressionCall
    \/ AnalyzeHandGestureCall
    \/ AnalyzeGestureCall
    \/ ApiStart
    \/ ApiStop
    \/ RunAgentEnter
    \/ RunAgentOpenCamera
    \/ RunAgentTest
    \/ RunAgentFrame
    \/ RunAgentFinally
    \/ RespondToBlink
    \/ BurstBlink
    \/ BurstReset
    \/ AnalyzeLandmarksCall
    \/ StartListening
    \/ StopListening
    \/ StopListeningReturn
    \/ ListenLoopTest
    \/ ListenLoopBody
    \/ PlayTrack
    \/ StopTrack

Spec == Init /\ [][Next]_vars

(***************************************************************************)
(* The claims.  The window statistics are restated here from the claims'   *)
(* words, independently of the operators that model the code.              *)
(***************************************************************************)
WindowFull == Len(gesture_buffer) = 5

Occurrences(w, l) == Cardinality({i \in DOMAIN w : w[i].gesture_type = l})

RECURSIVE ConfidenceSum(_, _, _)
ConfidenceSum(w, l, i) ==
    IF i = 0 THEN 0
    ELSE (IF w[i].gesture_type = l THEN w[i].confidence ELSE 0)
         + ConfidenceSum(w, l, i - 1)

\* Label l occurs in at least 60% of window w and the mean confidence of
\* its entries is above 0.5 (confidences are hundredths).
Promotes(w, l) ==
    /\ 10 * Occurrences(w, l) >= 6 * Len(w)
    /\ 2 * ConfidenceSum(w, l, Len(w)) > 100 * Occurrences(w, l)

AllLabels == {"neutral", "open_palm", "pointing", "happy"}

\* The labels of gestures proper.
GestureLabels == AllLabels \ {"neutral"}

Promoted(w) == \E l \in AllLabels : Promotes(w, l)

\* The returned confidence is the mean confidence of label l in window w.
IsMeanOf(q, w, l) ==
    q.n * 100 * Occurrences(w, l) = ConfidenceSum(w, l, Len(w)) * q.d

\* C1: once the window is full, when the same label meets the promotion
\* criteria on two consecutive evaluations, the second evaluation returns
\* that label with stable = true.
C1_SecondPromotionStable ==
    [][\A l \in GestureLabels :
          (/\ WindowFull
           /\ Promotes(gesture_buffer, l)
           /\ Promotes(gesture_buffer', l))
          => (result'.gesture_type = l /\ result'.stable = "true")]_vars

FiveOpenPalms ==
    /\ ingested = 5
    /\ gesture_buffer = [i \in 1..5 |-> OpenPalm]

\* C2: five open_palm candidates at 0.9 fed to a fresh
\* stabilizer give four outputs that are not stable and a fifth with label
\* open_palm and stable = true, and exactly one gesture-category actuator
\* invocation.
C2_FifthStableOneInvocation ==
    /\ ingested < 5 => result.stable # "true"
    /\ FiveOpenPalms =>
          /\ result.gesture_type = "open_palm"
          /\ result.stable = "true"
          /\ invocations["gesture"] = 1

\* C3: on a full-window evaluation at which a label meets the promotion
\* criteria with the hold counter at 1, below the minimum hold of 2, the
\* majority label is returned with its mean confidence and stable = false.
C3_FirstPromotionReported ==
    \A l \in GestureLabels :
        (/\ WindowFull
         /\ Promotes(gesture_buffer, l)
         /\ gesture_hold_frames = 1)
        => /\ result.gesture_type = l
           /\ IsMeanOf(result.confidence, gesture_buffer, l)
           /\ result.stable = "false"

\* C4: while fewer than 5 candidates have been taken, every call returns
\* exactly the candidate passed in, with no stable flag.
C4_RawBeforeFull ==
    (ingested >= 1 /\ ingested < 5) =>
        LET g == gesture_buffer[Len(gesture_buffer)]
        IN  /\ Len(gesture_buffer) = ingested
            /\ result.gesture_type = g.gesture_type
            /\ result.confidence = Q(g.confidence, 100)
            /\ result.details = g.details
            /\ result.stable = "absent"

C4_Witness ==
    /\ ingested = 4
    /\ gesture_buffer[4].gesture_type = "open_palm"
    /\ gesture_buffer[3].gesture_type = "open_palm"
    /\ gesture_buffer[2].gesture_type = "open_palm"
    /\ result.gesture_type = "open_palm"
    /\ result.stable = "absent"

\* C5: stable = true is never returned unless, on that evaluation, the
\* window is full, the returned label occurs in at least 60% of the entries
\* with a mean confidence (over its own entries) above 0.5, and the hold
\* counter is at least 2; the neutral label at confidence 0 is never
\* returned as stable.
C5_StableOnlyWhenPromoted ==
    /\ (\/ ~WindowFull
        \/ ~Promotes(gesture_buffer, result.gesture_type)
        \/ gesture_hold_frames < 2)
       => result.stable # "true"
    /\ (result.gesture_type = "neutral" /\ result.confidence.n = 0)
       => result.stable # "true"

\* A second promotion of open_palm in a row, evaluated with the hold counter
\* below 2 and returned as not stable.
C5_Witness ==
    /\ ingested > 5
    /\ WindowFull
    /\ Promotes(gesture_buffer, "open_palm")
    /\ gesture_hold_frames = 1
    /\ result.stable = "false"

\* C6: after a label was promoted with hold counter N > 0, an evaluation on
\* which no label meets the promotion criteria returns that label, not
\* neutral, with stable = false and 0.8 times its mean confidence, and
\* takes exactly 1 off the hold counter.
C6_DecayLaw ==
    [][\A l \in GestureLabels :
          (/\ WindowFull
           /\ Promotes(gesture_buffer, l)
           /\ gesture_hold_frames > 0
           /\ ~Promoted(gesture_buffer'))
          => /\ result'.gesture_type = l
             /\ result'.stable = "false"
             /\ 10 * result'.confidence.n * 100 * Occurrences(gesture_buffer, l)
                  = 8 * ConfidenceSum(gesture_buffer, l, 5) * result'.confidence.d
             /\ gesture_hold_frames' = gesture_hold_frames - 1]_vars

\* C7: the hold counter is never negative, and an evaluation of a full
\* window on which no label meets the promotion criteria, with the hold
\* counter at 0 or no label confirmed, returns neutral at confidence 0 with
\* stable = false.
C7_NeutralWhenNothingHeld ==
    /\ gesture_hold_frames >= 0
    /\ (/\ WindowFull
        /\ ~Promoted(gesture_buffer)
        /\ (gesture_hold_frames = 0 \/ last_confirmed_gesture = None))
       => /\ result.gesture_type = "neutral"
          /\ result.confidence.n = 0
          /\ result.stable = "false"

C7_Witness ==
    /\ WindowFull
    /\ ~Promoted(gesture_buffer)
    /\ gesture_buffer[5].gesture_type = "open_palm"
    /\ gesture_buffer[5].confidence = 90
    /\ Occurrences(gesture_buffer, "open_palm") = 2
    /\ result.gesture_type = "neutral"
    /\ result.confidence.n = 0
    /\ result.stable = "false"

LastTrigger(c) ==
    CASE c = "gesture" -> last_gesture_time
      [] c = "blink"   -> last_blink_action_time
      [] c = "mood"    -> last_mood_action_time

\* C8: any two actuator invocations of one category are at least the
\* category's interval apart.
C8_InvocationsSpaced == \A c \in Categories : spaced[c]

\* C9: an event of a category that arrives an interval or more after the
\* category's last trigger (exactly the interval included, the first event
\* included) invokes the category's actuator once and sets the category's
\* last trigger to the time of the event.
C9_DueEventDispatched ==
    \A c \in Categories :
        (frame.event[c] /\ frame.elapsed[c])
        => (frame.n[c] = 1 /\ LastTrigger(c) = now)

C11_ActuatorsOnWorkers == \A c \in Categories : frame.sync[c] = 0

\* C12: when an actuator called in a frame raises, the exception does not
\* reach the sensing loop: the loop is still running after the frame.
C12_ActuatorErrorsContained == frame.raised => loop = "running"

C14_WindowFIFO ==
    [][(program = "processor" \/ program = "main" \/ program = "app") =>
          (LET n    == Len(gesture_buffer')
               drop == IF Len(gesture_buffer) = 5 THEN 1 ELSE 0
           IN  /\ n = (IF ingested' < 5 THEN ingested' ELSE 5)
               /\ gesture_buffer'[n] = candidate'
               /\ \A i \in 1..(n - 1) :
                      gesture_buffer'[i] = gesture_buffer[i + drop])
      ]_vars

C14_Witness ==
    /\ ingested = 6
    /\ Len(gesture_buffer) = 5
    /\ gesture_buffer[5] = candidate
    /\ gesture_buffer[1].gesture_type = "pointing"
    /\ gesture_buffer[4].gesture_type = "neutral"
    /\ candidate.gesture_type = "open_palm"

\* The dictionary returned by detect_blink reports a blink.
Emitted(info) == info # Absent /\ info.blink_detected

\* C15: detect_blink reports a blink on exactly the frames whose eye signal
\* reads open after two or more frames in a row on which it read closed (a
\* closure of one frame reports nothing), and the closed-frame counter is 0
\* after every frame whose eye signal reads open.
C15_BlinkOnReopen ==
    [][(program = "blink") =>
          (/\ Emitted(blink_info') <=> (eye_signal' = "open" /\ closed_run >= 2)
           /\ eye_signal' = "open" => both_eyes_closed_frames' = 0)
      ]_vars

\* A blink is reported on the open frame that follows a closure.
C15_Witness ==
    /\ program = "blink"
    /\ Emitted(blink_info)
    /\ blink_info.blink_count = 1
    /\ eye_signal = "open"
    /\ both_eyes_closed_frames = 0
    /\ closed_run = 0

\* The timestamps of the burst buffer less than 1.5 seconds (3 ticks) before
\* the time t.
InBurst(buf, t) == {i \in DOMAIN buf : t - buf[i] < 3}

\* C16: a reported blink is classified from the number of timestamps of the
\* burst buffer, its own included, that lie within 1.5 seconds (less than 1.5
\* seconds back) of its time: 3 or more is a triple_blink, exactly 2 a
\* double_blink, anything else a single_blink.
C16_BurstClassification ==
    [][(program = "blink" /\ Emitted(blink_info')) =>
          (LET k == Cardinality(InBurst(blink_buffer', current_time'))
           IN  /\ k >= 3 => blink_info'.blink_type = "triple_blink"
               /\ k = 2 => blink_info'.blink_type = "double_blink"
               /\ k < 2 => blink_info'.blink_type = "single_blink")
      ]_vars

\* Blinks at 0.0, 0.5 and 1.0 seconds: the third one is a triple_blink.
C16_Witness ==
    /\ program = "blink"
    /\ Emitted(blink_info)
    /\ blink_buffer = <<0, 1, 2>>
    /\ current_time = 2
    /\ blink_info.blink_type = "triple_blink"

\* Blinks at 0.0 and 2.0 seconds: the second one is a single_blink.
C16_SingleOutsideWindow ==
    /\ program = "blink"
    /\ Emitted(blink_info)
    /\ blink_buffer = <<0, 4>>
    /\ current_time = 4
    /\ blink_info.blink_type = "single_blink"

\* Blinks at 0.0 and 1.5 seconds: the second one is a single_blink.
C16_SingleAtWindowEdge ==
    /\ program = "blink"
    /\ Emitted(blink_info)
    /\ blink_buffer = <<0, 3>>
    /\ current_time = 3
    /\ blink_info.blink_type = "single_blink"

\* The last 10 entries of a sequence.
LastTen(seq) ==
    LET n == Len(seq)
    IN  SubSeq(seq, IF n > 10 THEN n - 9 ELSE 1, n)

\* C17: the burst buffer never holds more than 10 timestamps, in the order
\* the blinks were reported: a reported blink puts its time at the end and,
\* beyond 10 entries, drops the oldest; a reset empties the buffer; nothing
\* else changes it.
C17_BurstBufferBounded ==
    [][(program = "blink") =>
          (/\ Len(blink_buffer') <= 10
           /\ \A i \in 1..(Len(blink_buffer') - 1) :
                  blink_buffer'[i] <= blink_buffer'[i + 1]
           /\ IF Emitted(blink_info')
              THEN blink_buffer' = LastTen(Append(blink_buffer, current_time'))
              ELSE \/ blink_buffer' = blink_buffer
                   \/ blink_info' = Absent /\ blink_buffer' = <<>>)
      ]_vars

\* The eleventh blink or a later one since the last reset was reported: the
\* buffer holds 10 timestamps, the last one that of the blink.
C17_Witness ==
    /\ program = "blink"
    /\ Emitted(blink_info)
    /\ blink_count = 11
    /\ Len(blink_buffer) = 10
    /\ blink_buffer[1] = 1
    /\ blink_buffer[10] = 4
    /\ current_time = 4

\* C18: the glasses flag flips exactly on the 5th frame in a row that
\* indicates the mode opposite to the flag: never on fewer, always on the 5th.
C18_FlipOnFifthFrame ==
    [][(program = "glasses") =>
          (wearing_glasses' # wearing_glasses
             <=> (/\ opposite_run = 4
                  /\ Indicates(face_frame') = OppositeMode(wearing_glasses)))
      ]_vars

\* The flag flips on the 6th frame in a row that indicates the other mode.
C18_FlipOnSixthFrame ==
    [][(program = "glasses") =>
          ((/\ opposite_run = 5
            /\ Indicates(face_frame') = OppositeMode(wearing_glasses))
             => wearing_glasses' # wearing_glasses)
      ]_vars

\* Back in the mode without glasses after a run in the mode with glasses.
C18_FlippedBack ==
    /\ program = "glasses"
    /\ ~wearing_glasses
    /\ glasses_frames = 0
    /\ no_glasses_frames = 6

\* C19: every dictionary returned by detect_expression holds a score for
\* each of the five labels, and every score lies between 0 and 1.
C19_ScoresInUnitInterval ==
    expression_info # Absent =>
        /\ DOMAIN expression_info.all_scores =
               {"happy", "sad", "surprised", "angry", "neutral"}
        /\ \A l \in DOMAIN expression_info.all_scores :
               /\ expression_info.all_scores[l] >= 0
               /\ expression_info.all_scores[l] <= 100

\* All five labels are scored in every returned dictionary.
C19_AllLabelsScored ==
    expression_info # Absent =>
        DOMAIN expression_info.all_scores =
            {"happy", "sad", "surprised", "angry", "neutral"}

\* C20: every dictionary returned by detect_expression has a confidence of
\* 0.5 or more, with or without the averaging over the history.
C20_ConfidenceAtLeastHalf ==
    expression_info # Absent =>
        2 * expression_info.confidence.n >= expression_info.confidence.d

\* A confidence that is the mean of several entries of a label, in a full
\* history that holds three labels.
C20_Witness ==
    /\ program = "expression"
    /\ expression_info # Absent
    /\ Len(expression_history) = 5
    /\ Cardinality({expression_history[i].expression :
                        i \in DOMAIN expression_history}) = 3
    /\ expression_info.expression = "sad"
    /\ expression_info.confidence = Q(130, 200)

\* The entries of a history that carry the label l.
EntriesOf(hist, l) == {i \in DOMAIN hist : hist[i].expression = l}

RECURSIVE TotalOf(_, _, _)
\* The sum of the confidences, in hundredths, of the entries in the set idx.
TotalOf(hist, l, idx) ==
    IF idx = {} THEN 0
    ELSE LET i == CHOOSE j \in idx : TRUE
         IN  hist[i].confidence + TotalOf(hist, l, idx \ {i})

\* The rational q is the average confidence of the entries of label l.
IsAverageOf(q, hist, l) ==
    /\ EntriesOf(hist, l) # {}
    /\ q.n * 100 * Cardinality(EntriesOf(hist, l))
          = TotalOf(hist, l, EntriesOf(hist, l)) * q.d

\* The average confidence of label l is not above the rational q.
AverageAtMost(hist, l, q) ==
    TotalOf(hist, l, EntriesOf(hist, l)) * q.d
        <= q.n * 100 * Cardinality(EntriesOf(hist, l))

C22_MoodObserversNotified ==
    (program = "expression" /\ expression_info # Absent
        /\ 10 * expression_info.confidence.n >= 4 * expression_info.confidence.d)
    => /\ Len(mood_notified) = 2
       /\ mood_notified[1].observer = "raising_observer"
       /\ mood_notified[2].observer = "observer"
       /\ \A i \in 1..2 :
              /\ mood_notified[i].mood = expression_info.expression
              /\ mood_notified[i].confidence = expression_info.confidence

\* Both observers were called with an averaged result.
C22_Witness ==
    /\ program = "expression"
    /\ expression_info # Absent
    /\ Len(expression_history) = 2
    /\ expression_info.expression = "surprised"
    /\ expression_info.confidence = Q(140, 200)
    /\ Len(mood_notified) = 2
    /\ mood_notified[2] = [observer |-> "observer", mood |-> "surprised",
                           confidence |-> Q(140, 200)]

\* Every hand of the list has its 21 landmarks.
WellFormed(hs) == \A i \in DOMAIN hs : ~hs[i].malformed

\* The (hand, family) pairs of the list whose confidence exceeds the
\* family's value in the table th.
Exceeding(hs, th) ==
    {<<i, k>> \in (DOMAIN hs) \X (1..4) :
        hs[i].confidence[HandFamilies[k]] > th[HandFamilies[k]]}

\* The candidate res is the best of the list under the table th: the
\* highest confidence among the exceeding pairs, the earlier family on equal
\* confidence; neutral with confidence 0 when no pair exceeds.
IsBestOf(res, hs, th) ==
    IF Exceeding(hs, th) = {}
    THEN res.gesture_type = "neutral" /\ res.confidence = 0
    ELSE \E p \in Exceeding(hs, th) :
            /\ res.gesture_type = HandFamilies[p[2]]
            /\ res.confidence = hs[p[1]].confidence[HandFamilies[p[2]]]
            /\ \A q \in Exceeding(hs, th) :
                   \/ hs[q[1]].confidence[HandFamilies[q[2]]] < res.confidence
                   \/ /\ hs[q[1]].confidence[HandFamilies[q[2]]] = res.confidence
                      /\ p[2] <= q[2]

\* C23: over all hands and all four families, the hand classifier returns
\* the family of the highest confidence among those that exceed their
\* threshold, the earlier family on equal confidence, and neutral with
\* confidence 0 when no family of any hand exceeds its threshold.
C23_HighestConfidenceFamily ==
    (program = "hands" /\ hand_gesture # Absent /\ WellFormed(hands))
    => IsBestOf(hand_gesture, hands, gesture_thresholds)

\* The numbers lines 101, 110, 119 and 128 compare with, as a table.
ComparedThresholds ==
    [thumbs_up |-> 70, peace_sign |-> 70, open_palm |-> 75, pointing |-> 70]

\* The statement of C23 with the numbers the code compares with in place of
\* the threshold table.
C23_HighestByComparedThresholds ==
    (program = "hands" /\ hand_gesture # Absent /\ WellFormed(hands))
    => IsBestOf(hand_gesture, hands, ComparedThresholds)

\* What the classifier returns: neutral with confidence 0 when no family of
\* any hand is accepted, and else the first accepted family of the first
\* hand that has one.
C23_FirstMatchWins ==
    (program = "hands" /\ hand_gesture # Absent /\ WellFormed(hands))
    => IF Exceeding(hands, ComparedThresholds) = {}
       THEN hand_gesture.gesture_type = "neutral" /\ hand_gesture.confidence = 0
       ELSE \E p \in Exceeding(hands, ComparedThresholds) :
               /\ hand_gesture.gesture_type = HandFamilies[p[2]]
               /\ hand_gesture.confidence = hands[p[1]].confidence[HandFamilies[p[2]]]
               /\ \A q \in Exceeding(hands, ComparedThresholds) :
                      p[1] < q[1] \/ (p[1] = q[1] /\ p[2] <= q[2])

\* C24: classifying a single hand, a family is accepted exactly when its
\* confidence exceeds the family's value in the threshold table: the family
\* returned exceeds its table value, and the first family of the order that
\* exceeds its table value is returned.
C24_TableThresholdsApplied ==
    (program = "hands" /\ hand_gesture # Absent /\ WellFormed(hands)
        /\ Len(hands) = 1)
    => /\ hand_gesture.gesture_type # "neutral" =>
              hands[1].confidence[hand_gesture.gesture_type]
                  > gesture_thresholds[hand_gesture.gesture_type]
       /\ \A k \in 1..4 :
              (/\ hands[1].confidence[HandFamilies[k]]
                     > gesture_thresholds[HandFamilies[k]]
               /\ \A j \in 1..(k - 1) :
                      hands[1].confidence[HandFamilies[j]]
                          <= gesture_thresholds[HandFamilies[j]])
              => hand_gesture.gesture_type = HandFamilies[k]

\* An open palm at 0.72 is returned as neutral.
C24_OpenPalmRejected ==
    /\ program = "hands"
    /\ hands = <<Hand(0, 0, 72, 0)>>
    /\ hand_gesture = DefaultCandidate

\* C25: a hand or a pose with too few landmarks never makes analyze_gesture
\* raise: no IndexError leaves it.
C25_MalformedNeverRaises ==
    program = "analyze" => analyze_raised # "IndexError"

\* C26: analyze_gesture given a dictionary without the key 'pose' or
\* without the key 'hands' does not raise: no KeyError leaves it.
C26_MissingKeysNeverRaise ==
    program = "analyze" => analyze_raised # "KeyError"

\* C27: the confidence of every analyze_gesture result lies in [0, 1].
C27_ConfidenceInUnitInterval ==
    (program = "analyze" /\ ingested >= 1)
    => /\ result.confidence.n >= 0
       /\ result.confidence.n <= result.confidence.d

\* C28: on a fresh processor given only {'hands': None, 'pose': None},
\* every analyze_gesture result is neutral with confidence 0, before and
\* after the window fills.
C28_EmptyFramesNeutral ==
    (program = "analyze" /\ only_empty /\ ingested >= 1)
    => /\ analyze_raised = None
       /\ result.gesture_type = "neutral"
       /\ result.confidence.n = 0

\* The sixth empty frame or a later one: the window is full of neutral
\* candidates, the result is the neutral result.
C28_Witness ==
    /\ program = "analyze"
    /\ only_empty
    /\ ingested = 6
    /\ Len(gesture_buffer) = 5
    /\ \A i \in 1..5 : gesture_buffer[i] = DefaultCandidate
    /\ result.gesture_type = "neutral"
    /\ result.confidence.n = 0
    /\ result.stable = "false"

\* The raw neutral candidate is returned before the window fills.
C28_BeforeFull ==
    /\ program = "analyze"
    /\ only_empty
    /\ ingested = 3
    /\ result.gesture_type = "neutral"
    /\ result.confidence.n = 0
    /\ result.stable = "absent"

C30_AtMostOneLoop ==
    program = "server" => Cardinality(InLoop(agent_threads)) <= 1

\* C30, second half: a start request answered while a thread is inside the
\* loop creates no thread.
C30_StartWhileLoopingCreatesNone ==
    [][(program = "server" /\ InLoop(agent_threads) # {}
        /\ response' = "200 Agent started" /\ agent_threads' # agent_threads)
       => FALSE
    ]_vars

\* The results of the hand and of the body analysis for the dictionary of
\* the last call (Absent when there were no hands, no pose).
HandResultOf(data) ==
    IF data.hands # <<>> THEN AnalyzeHandGesture(data.hands) ELSE Absent

BodyResultOf(data) ==
    IF data.pose # Absent THEN AnalyzeBodyGesture(data.pose) ELSE Absent

SameGesture(c, g) ==
    c.gesture_type = g.gesture_type /\ c.confidence = g.confidence

\* C31: the candidate handed to the stabilizer is the hand result when its
\* confidence is above 0.5, the body result when that is strictly more
\* confident, and the expression label only when the hand/body confidence
\* is below 0.5 and the expression's is above 0.4; an expression never
\* replaces a hand or body gesture of confidence 0.5 or more.
C31_CandidatePrecedence ==
    (program = "analyze" /\ gesture_data # Absent /\ analyze_raised = None)
    => LET hand     == HandResultOf(gesture_data)
           body     == BodyResultOf(gesture_data)
           facial   == gesture_data.facial
           handOk   == hand # Absent /\ hand.confidence > 50
           handConf == IF handOk THEN hand.confidence ELSE 0
           bodyOk   == body # Absent /\ body.confidence > handConf
           conf     == IF bodyOk THEN body.confidence ELSE handConf
           exprOk   == /\ facial # Absent
                       /\ facial.expression # Absent
                       /\ facial.expression.confidence > 40
       IN  /\ (conf >= 50 /\ bodyOk) => SameGesture(candidate, body)
           /\ (conf >= 50 /\ ~bodyOk) => SameGesture(candidate, hand)
           /\ (conf < 50 /\ exprOk)
                => /\ candidate.gesture_type = facial.expression.expression
                   /\ candidate.confidence = facial.expression.confidence
           /\ (conf < 50 /\ ~exprOk)
                => SameGesture(candidate, IF bodyOk THEN body ELSE DefaultCandidate)

\* An open palm kept although the frame has a raised hand and a smiling face.
C31_Witness ==
    /\ program = "analyze"
    /\ gesture_data # Absent
    /\ analyze_raised = None
    /\ gesture_data.hands # <<>>
    /\ gesture_data.pose # Absent
    /\ gesture_data.facial # Absent
    /\ candidate.gesture_type = "open_palm"

\* The body result replaces a less confident hand result.
C31_BodyReplacesHand ==
    /\ program = "analyze"
    /\ gesture_data # Absent
    /\ analyze_raised = None
    /\ gesture_data.hands # <<>>
    /\ HandResultOf(gesture_data).confidence > 50
    /\ candidate.gesture_type = "raise_hand"

\* The expression label is the candidate of a frame with a fist.
C31_ExpressionUsed ==
    /\ program = "analyze"
    /\ gesture_data # Absent
    /\ analyze_raised = None
    /\ gesture_data.hands # <<>>
    /\ candidate.gesture_type = "happy"

\* The expression at exactly 0.4 is not used.
C31_ExpressionAtThreshold ==
    /\ program = "analyze"
    /\ gesture_data # Absent
    /\ analyze_raised = None
    /\ gesture_data.facial # Absent
    /\ gesture_data.facial.expression.confidence = 40
    /\ candidate = DefaultCandidate

\* C32: with min_hold_frames = 2 the hold counter is 0 or 1 and no label is
\* ever confirmed: the counter grows only when the majority label is the
\* confirmed one, and a label is confirmed only with the counter at 2.
C32_HoldBelowTwoNeverConfirmed ==
    /\ gesture_hold_frames \in {0, 1}
    /\ last_confirmed_gesture = None

\* Six open palms at 0.9: the fifth and the sixth evaluation both promote
\* open_palm, and the counter stands at 1.
C32_Witness ==
    /\ program = "processor"
    /\ ingested = buffer_size + 1
    /\ gesture_buffer = [i \in 1..buffer_size |-> OpenPalm]
    /\ gesture_hold_frames = 1
    /\ last_confirmed_gesture = None

\* C33: in main.py a blink classified double_blink or triple_blink has its
\* action executed only if the action of the blink before it was dropped by
\* the cooldown, and once the first blink of a burst has executed its
\* single_blink action no later blink of the burst executes an action.
C33_BurstActsOnce ==
    (program = "respond" /\ blink_now # Absent /\ blink_now.executed
     /\ blink_now.type # "single_blink")
    => /\ ~blink_before.executed
       /\ (burst_first.executed
           => ~(blink_now.t - burst_first.t < blink_window))

\* The same for the blinks to which the frame responds less than a second
\* and a half after they were stamped.
C33_BurstActsOnceWithoutStall ==
    (program = "respond" /\ blink_now # Absent /\ blink_now.executed
     /\ blink_now.type # "single_blink"
     /\ blink_now.at - blink_now.t < blink_window)
    => /\ ~blink_before.executed
       /\ (burst_first.executed
           => ~(blink_now.t - burst_first.t < blink_window))

\* A double blink executed after the blink before it was dropped.
C33_DoubleAfterDrop ==
    /\ program = "respond"
    /\ blink_now # Absent
    /\ blink_now.type = "double_blink"
    /\ blink_now.executed
    /\ blink_now.at = blink_now.t
    /\ ~blink_before.executed

\* C34: for blink stamps that never decrease, the type computed from the
\* deque of the last ten stamps is the type computed from the complete list
\* of stamps since the last reset.
C34_DequeClassifiesAsLog ==
    program = "burst" => deque_type = log_type

\* More than ten blinks within a second and a half: a stamp inside the
\* burst window has left the deque.
C34_Witness ==
    /\ program = "burst"
    /\ Len(blink_log) > blink_buffer_maxlen
    /\ stamp_clock - blink_log[1] < blink_window
    /\ Len(blink_deque) = blink_buffer_maxlen
    /\ deque_type = "triple_blink"
    /\ log_type = "triple_blink"

\* A stamp outside the burst window has left the deque of a double blink.
C34_OldStampEvicted ==
    /\ program = "burst"
    /\ Len(blink_log) > blink_buffer_maxlen
    /\ ~(stamp_clock - blink_log[1] < blink_window)
    /\ deque_type = "double_blink"

\* C35: the label detect_expression returns is the label of an entry of the
\* history, and after five successful calls in a row with the same dominant
\* label it is that label.
C35_ReturnedLabelFromHistory ==
    (program = "expression" /\ expression_info # Absent)
    => /\ expression_info.expression \in HistoryLabels(expression_history)
       /\ dominant_run.count >= expression_history_maxlen
            => expression_info.expression = dominant_run.label

\* The fifth call in a row with the dominant label sad.
C35_Witness ==
    /\ program = "expression"
    /\ expression_info # Absent
    /\ dominant_run = [label |-> "sad", count |-> 5]
    /\ expression_info.expression = "sad"

\* happy is still returned four calls after its last occurrence.
C35_StaleLabel ==
    /\ program = "expression"
    /\ expression_info # Absent
    /\ Len(expression_history) = 5
    /\ expression_history[1].expression = "happy"
    /\ \A i \in 2..5 : expression_history[i].expression # "happy"
    /\ expression_info.expression = "happy"

\* C36: a call of detect_blink that returns None leaves the closed-frame
\* counter, the blink count and the burst buffer as they were; a call of
\* detect_expression that returns None leaves the expression history and
\* the last expression as they were and calls no mood observer.
C36_RejectedCallChangesNothing ==
    [][(/\ (program = "blink" /\ eye_signal' = "none")
           => (/\ blink_info' = Absent
               /\ UNCHANGED <<both_eyes_closed_frames, blink_count,
                              blink_buffer>>)
        /\ (program = "expression" /\ expression_info' = Absent)
           => (/\ UNCHANGED <<expression_history, last_expression>>
               /\ mood_notified' = <<>>))
      ]_vars

\* detect_blink returned None in the middle of a closure, after a blink.
C36_Witness ==
    /\ program = "blink"
    /\ eye_signal = "none"
    /\ blink_info = Absent
    /\ both_eyes_closed_frames = 2
    /\ blink_count > 0
    /\ blink_buffer # <<>>

\* detect_expression returned None with a history and a last expression.
C36_ExpressionRejected ==
    /\ program = "expression"
    /\ expression_info = Absent
    /\ Len(expression_history) = 3
    /\ last_expression = "happy"
    /\ mood_notified = <<>>

(***************************************************************************)
(* C37.                                                                    *)
(***************************************************************************)
InUnitSquare(lm) ==
    /\ \A y \in {lm.palm_y, lm.thumb_ip_y, lm.thumb_tip_y, lm.index_pip_y,
                 lm.index_tip_y, lm.middle_tip_y, lm.ring_tip_y,
                 lm.pinky_tip_y} : 0 <= y /\ y <= 100
    /\ \A x \in {lm.index_tip_x, lm.middle_tip_x} : 0 <= x /\ x <= 100

\* C37: a hand whose landmarks all have x and y in [0, 1] is never
\* classified thumbs_up or peace_sign: the classifier returns open_palm,
\* pointing or neutral for it.
C37_InFrameNeverThumbsOrPeace ==
    (program = "landmarks" /\ landmarks # NoLandmarks /\ InUnitSquare(landmarks))
        => /\ hand_gesture.gesture_type \in {"open_palm", "pointing", "neutral"}
           /\ IsThumbsUp(landmarks) <= 50
           /\ IsPeaceSign(landmarks) <= 70

\* An in-frame hand with the widest V the image allows, ring and little
\* fingers curled: its peace_sign confidence is 0.7 and it is classified
\* neutral.
C37_Witness ==
    /\ program = "landmarks"
    /\ landmarks # NoLandmarks
    /\ InUnitSquare(landmarks)
    /\ Distance(landmarks.index_tip_x, landmarks.middle_tip_x) = 100
    /\ hands[1].confidence.peace_sign = 70
    /\ hand_gesture = DefaultCandidate

\* An in-frame hand with the longest thumb the image allows: confidence 0.5.
C37_LongestThumb ==
    /\ program = "landmarks"
    /\ landmarks # NoLandmarks
    /\ InUnitSquare(landmarks)
    /\ hands[1].confidence.thumbs_up = 50
    /\ hand_gesture.gesture_type # "thumbs_up"

\* A hand with a landmark outside the image is classified thumbs_up.
C37_OutOfFrameThumbsUp ==
    /\ program = "landmarks"
    /\ landmarks # NoLandmarks
    /\ ~InUnitSquare(landmarks)
    /\ hand_gesture.gesture_type = "thumbs_up"

\* A hand with a landmark outside the image is classified peace_sign.
C37_OutOfFramePeaceSign ==
    /\ program = "landmarks"
    /\ landmarks # NoLandmarks
    /\ ~InUnitSquare(landmarks)
    /\ hand_gesture.gesture_type = "peace_sign"

\* In-frame hands are classified open_palm and pointing.
C37_InFrameOpenPalm ==
    /\ program = "landmarks"
    /\ landmarks # NoLandmarks
    /\ InUnitSquare(landmarks)
    /\ hand_gesture.gesture_type = "open_palm"

C37_InFramePointing ==
    /\ program = "landmarks"
    /\ landmarks # NoLandmarks
    /\ InUnitSquare(landmarks)
    /\ hand_gesture.gesture_type = "pointing"

(***************************************************************************)
(* C38.                                                                    *)
(***************************************************************************)
\* C38: at most one _listen_loop thread runs at any time.
C38_AtMostOneListener ==
    program = "voice" => Cardinality(LiveListeners(listeners)) <= 1

\* C38, second part: start_listening called while is_listening is set
\* starts no thread.
C38_StartWhileListeningStartsNone ==
    [][((program = "voice" /\ is_listening /\ voice_call' = "start_listening")
            => (listeners' = listeners /\ listen_thread' = listen_thread))
      ]_vars

\* C38, third part: a thread that was alive during a call of stop_listening
\* does not enter the body of its loop again.
C38_StoppedNeverResumes ==
    [][((program = "voice")
            => \A t \in ListenerIds :
                  (told_to_stop[t] /\ listeners[t] = "test")
                      => listeners'[t] # "listening")
      ]_vars

\* Two threads are inside _listen_loop, one of them told to stop before
\* the other was started.
C38_TwoListeners ==
    /\ program = "voice"
    /\ Cardinality(LiveListeners(listeners)) = 2
    /\ \E t \in ListenerIds : told_to_stop[t] /\ listeners[t] = "listening"
    /\ is_listening

\* start_listening was called while listening.
C38_StartedWhileListening ==
    /\ program = "voice"
    /\ voice_call = "start_listening"
    /\ is_listening
    /\ Cardinality(LiveListeners(listeners)) = 1
    /\ \E t \in ListenerIds : listeners[t] = "listening"

\* While no stop_listening timed out on a thread still in its body, there
\* is at most one thread.
C38_AtMostOneWhenJoined ==
    (program = "voice"
        /\ \A t \in ListenerIds :
              told_to_stop[t] => listeners[t] \notin {"test", "listening"})
        => Cardinality(LiveListeners(listeners)) <= 1

(***************************************************************************)
(* C39.                                                                    *)
(***************************************************************************)
\* C39: right after play_track returned True, is_playing is True and
\* current_track is the track just started, also when the process of
\* another track was stopped first.
C39_PlayingAfterPlayTrack ==
    (program = "music" /\ music_call # Absent)
        => ((music_call.op = "play_track" /\ music_call.returned)
               => (is_playing /\ current_track = music_call.track))

\* C39 for the first track started: no process had to be stopped.
C39_FirstTrackReported ==
    (program = "music" /\ music_call # Absent)
        => ((/\ music_call.op = "play_track"
             /\ music_call.returned
             /\ music_call.process_before = None)
               => (is_playing /\ current_track = music_call.track))

\* play_track returned True for a second track, and the player reports
\* that nothing is playing.
C39_SecondTrackUnreported ==
    /\ program = "music"
    /\ music_call # Absent
    /\ music_call.op = "play_track"
    /\ music_call.returned
    /\ music_call.process_before = "calm.mp3"
    /\ music_process = "upbeat.mp3"
    /\ ~is_playing
    /\ current_track = None

\* The first track was started and is reported.
C39_FirstTrackPlaying ==
    /\ program = "music"
    /\ music_call # Absent
    /\ music_call.op = "play_track"
    /\ music_call.returned
    /\ music_call.process_before = None
    /\ is_playing
    /\ current_track = "calm.mp3"
====
